---- MODULE Spec2Model ----
(***************************************************************************)
(* Notesaw live preview: the Node-Identity Tree (transformer.ts), the      *)
(* Incremental Re-parse Controller (extension.ts) and the Block Grammar    *)
(* Parser (parser.ts).                                                     *)
(*                                                                         *)
(* A document is a sequence of lines.  Every line is one of four kinds,    *)
(* all starting at column 1:                                               *)
(*   "text"   a non-blank line of ordinary Markdown text                   *)
(*   "blank"  an empty line                                                *)
(*   "open"   a block-open line such as  @def {                            *)
(*   "close"  a line holding only  }                                       *)
(* The parser alone is modelled on texts, character by character, with    *)
(* the lines and columns it computes; so is its earlier revision that has  *)
(* separators (part_006).                                                  *)
(* JavaScript arrays are sequences: the JS element a[i] is a[i + 1] here.  *)
(***************************************************************************)
EXTENDS Integers, Sequences, FiniteSets, TLC

\* ------------------------------------------------------------ bounds ----
\* lines of a document the editor opens, lines of a replacement text
MaxLines == 4
MaxText == 2
\* one run of the whole extension: text changes, other editor events,
\* lines of a document and of a replacement text
MaxEdits == 2
MaxEvents == 2
\* edits that arrive while an earlier edit is being handled
MaxQueueEdits == 3
MaxSessionLines == 1
MaxSessionText == 1
\* one session of renders and edits handled one after the other: lines of
\* the document and of a replacement text
MaxSeqLines == 2
MaxSeqText == 2
\* tracked ids of a tree handed to findLCA
MaxIds == 4

\* --------------------------------------------------- JavaScript values --
\* The value `undefined` (a hole or an out-of-range read) and NaN
undefined == -9999
NaN == -9998

IsNum(v) == v /= undefined /\ v /= NaN
\* a + b on numbers; undefined + 1 and NaN + 1 are NaN
JsAdd(a, b) == IF IsNum(a) /\ IsNum(b) THEN a + b ELSE NaN
\* a > b is false as soon as one side is undefined or NaN
JsGt(a, b) == IsNum(a) /\ IsNum(b) /\ a > b
\* a minimum that is always its second argument
JsMin_second(a, b) == b
JsMin(a, b) == IF IsNum(a) /\ IsNum(b) THEN (IF a < b THEN a ELSE b) ELSE NaN
JsMax(a, b) == IF IsNum(a) /\ IsNum(b) THEN (IF a > b THEN a ELSE b) ELSE NaN
\* a === b ; NaN is not equal to itself
JsEq(a, b) == a = b /\ a /= NaN

\* a[i]
At(a, i) == IF i >= 0 /\ i < Len(a) THEN a[i + 1] ELSE undefined
\* a.length = n
SetLength(a, n) ==
  IF n <= Len(a) THEN SubSeq(a, 1, n)
  ELSE a \o [k \in 1..(n - Len(a)) |-> undefined]
\* a[i] = v ; an index that is no array index (NaN, negative) adds no element
SetAt(a, i, v) ==
  IF ~IsNum(i) \/ i < 0 THEN a
  ELSE IF i < Len(a) THEN [a EXCEPT ![i + 1] = v]
  ELSE SetLength(a, i) \o <<v>>
\* for (let i = from; i <= to; i++) a[i] = v
RECURSIVE Fill(_, _, _, _)
Fill(a, from, to, v) ==
  IF ~(IsNum(from) /\ IsNum(to) /\ from <= to) THEN a
  ELSE Fill(SetAt(a, from, v), from + 1, to, v)

\* ----------------------------------------------------------- documents --
LineKinds == {"text", "blank", "open", "close"}
RECURSIVE SeqsUpTo(_, _)
SeqsUpTo(S, n) ==
  IF n = 0 THEN {<<>>}
  ELSE LET shorter == SeqsUpTo(S, n - 1)
       IN shorter \cup {Append(s, e) : s \in {t \in shorter : Len(t) = n - 1}, e \in S}
\* a text document always has at least one line
Docs == {d \in SeqsUpTo(LineKinds, MaxLines) : Len(d) >= 1}
Texts == {t \in SeqsUpTo(LineKinds, MaxText) : Len(t) >= 1}
SessionDocs == {d \in SeqsUpTo(LineKinds, MaxSessionLines) : Len(d) >= 1}
SessionTexts == {t \in SeqsUpTo(LineKinds, MaxSessionText) : Len(t) >= 1}
SeqDocs == {d \in SeqsUpTo(LineKinds, MaxSeqLines) : Len(d) >= 1}
SeqTexts == {t \in SeqsUpTo(LineKinds, MaxSeqText) : Len(t) >= 1}

\* ------------------------------------------- parser.ts, line by line ----
\* A node of the rendered tree: tag, first and last line, element children
Node(tag, s, e, kids) == [tag |-> tag, s |-> s, e |-> e, kids |-> kids]

\* Line j of the text run that spans lines s..e.  The run begins at the
\* start of line s when fresh, otherwise right after the '{' or '}' of line
\* s; it stops before the '@' of line e when atMark.  At nesting level 0 a
\* '}' is no block end, so a "close" line is ordinary text.
IsTextLine(lines, s, fresh, e, atMark, j) ==
  /\ j > s \/ fresh
  /\ j < e \/ ~atMark
  /\ lines[j] \in {"text", "close"}

\* parseNativeMarkdown: the paragraphs of a run, each with its line range
RECURSIVE Paragraphs(_, _, _, _, _, _, _)
Paragraphs(lines, s, fresh, e, atMark, j, open) ==
  \* open = first line of the paragraph being read, or 0
  IF j > e THEN (IF open = 0 THEN <<>> ELSE <<Node("p", open, e, <<>>)>>)
  ELSE IF IsTextLine(lines, s, fresh, e, atMark, j)
       THEN Paragraphs(lines, s, fresh, e, atMark, j + 1, IF open = 0 THEN j ELSE open)
       ELSE (IF open = 0 THEN <<>> ELSE <<Node("p", open, j - 1, <<>>)>>)
            \o Paragraphs(lines, s, fresh, e, atMark, j + 1, 0)

\* parseNativeMarkdown: null (the empty sequence here) for a run without
\* content, otherwise one "markdown" node spanning the whole slice
MarkdownRun(lines, s, fresh, e, atMark) ==
  LET ps == Paragraphs(lines, s, fresh, e, atMark, s, 0)
  IN IF ps = <<>> THEN <<>> ELSE <<Node("run", s, e, ps)>>

\* parseNote's scan.  level = indentLevel (0 or 1: with every marker at
\* column 1 a block opens only at level 0 and a '}' closes only at level 1),
\* cur/fresh = where the pending slice starts, from = line of the open block
RECURSIVE Scan(_, _, _, _, _, _)
Scan(lines, i, level, cur, fresh, from) ==
  IF i > Len(lines)
  THEN IF level = 0 THEN MarkdownRun(lines, cur, fresh, Len(lines), FALSE)
       ELSE <<Node("block", from, Len(lines), <<>>)>>
  ELSE IF level = 0 /\ lines[i] = "open"
       THEN MarkdownRun(lines, cur, fresh, i, TRUE) \o Scan(lines, i + 1, 1, i, FALSE, i)
  ELSE IF level = 1 /\ lines[i] = "close"
       THEN <<Node("block", from, i, <<>>)>> \o Scan(lines, i + 1, 0, i, FALSE, 0)
  ELSE Scan(lines, i + 1, level, cur, fresh, from)

\* The children of the rendered div.markdown-body for a text
ParseNote(lines) == Scan(lines, 1, 0, 1, TRUE, 0)

\* ------------------------------------------------------ transformer.ts --
\* The module-level state of transformer.ts as one record
Tree(c, m, f, d, s, e) ==
  [counter |-> c, map |-> m, mapFather |-> f, mapDepth |-> d,
   mapStartLine |-> s, mapEndLine |-> e]

\* the pushes with the father's depth, without the + 1
NewElement_depth(g, depth, father, startLine, endLine) ==
  [g EXCEPT !.counter = @ + 1,
            !.mapDepth = Append(@, JsAdd(depth, -1)),
            !.mapFather = Append(@, father),
            !.mapStartLine = Append(@, startLine),
            !.mapEndLine = Append(@, endLine)]
\* the pushes with a getNewId that returns counter without counter++
NewElement_same(g, depth, father, startLine, endLine) ==
  [g EXCEPT !.mapDepth = Append(@, depth),
            !.mapFather = Append(@, father),
            !.mapStartLine = Append(@, startLine),
            !.mapEndLine = Append(@, endLine)]
\* getNewId and the four pushes that follow it
NewElement(g, depth, father, startLine, endLine) ==
  [g EXCEPT !.counter = @ + 1,
            !.mapDepth = Append(@, depth),
            !.mapFather = Append(@, father),
            !.mapStartLine = Append(@, startLine),
            !.mapEndLine = Append(@, endLine)]

extendMapArray(m, totalLines) == SetLength(m, totalLines + 1)

\* an isValidElement without line 119, which skips the root
isValidElement_root(node, labelRoot) == TRUE
isValidElement(node, labelRoot) == node.tag = "root" => labelRoot
continueTransform(node) == node.tag \in {"root", "run"}

\* The loop over node.children: every child gets the next id; only the lines
\* in front of the first child are given to the parent here
RECURSIVE LabelChildren(_, _, _, _, _, _, _)
LabelChildren(g, kids, k, id, depth, baseLine, currentLine) ==
  IF k > Len(kids) THEN [g |-> g, currentLine |-> currentLine]
  ELSE LET childStartLine == JsAdd(kids[k].s, baseLine)
           childEndLine == JsAdd(kids[k].e, baseLine)
           g1 == NewElement(g, JsAdd(depth, 1), id, childStartLine, childEndLine)
           g2 == IF k = 1
                 THEN [g1 EXCEPT !.map = Fill(@, currentLine, JsAdd(childStartLine, -1), id)]
                 ELSE g1
       IN LabelChildren(g2, kids, k + 1, id, depth, baseLine, JsAdd(childEndLine, 1))

\* The second visit of transformNote, in document order.  nid is the id the
\* node already carries (0 when it has none yet)
RECURSIVE Visit(_, _, _, _, _, _)
RECURSIVE VisitAll(_, _, _, _, _, _, _)
Visit(g, node, nid, baseLine, fatherId, labelRoot) ==
  IF ~isValidElement(node, labelRoot)
  THEN VisitAll(g, node.kids, 1, 0, baseLine, fatherId, labelRoot)
  ELSE LET startLine == JsAdd(node.s, baseLine)
           endLine == JsAdd(node.e, baseLine)
           g1 == IF nid = 0
                 THEN NewElement(g, JsAdd(At(g.mapDepth, fatherId), 1), fatherId,
                                 startLine, endLine)
                 ELSE g
           id == IF nid = 0 THEN g1.counter ELSE nid
           depth == At(g1.mapDepth, id)
       IN IF continueTransform(node)
          THEN LET r == LabelChildren(g1, node.kids, 1, id, depth, baseLine, startLine)
                   g2 == [r.g EXCEPT !.map = Fill(@, r.currentLine, endLine, id)]
               IN VisitAll(g2, node.kids, 1, g1.counter, baseLine, fatherId, labelRoot)
          ELSE [g1 EXCEPT !.map = Fill(@, startLine, endLine, id)]
\* base = 0: the children carry no id; otherwise child k carries base + k
VisitAll(g, kids, k, base, baseLine, fatherId, labelRoot) ==
  IF k > Len(kids) THEN g
  ELSE VisitAll(Visit(g, kids[k], IF base = 0 THEN 0 ELSE base + k,
                      baseLine, fatherId, labelRoot),
                kids, k + 1, base, baseLine, fatherId, labelRoot)

\* transformNote on the rendered tree of a text; the root takes the
\* position of its first child
transformNote(g, top, baseLine, fatherId, labelRoot) ==
  IF top = <<>> THEN g
  ELSE Visit(g, Node("root", top[1].s, top[1].e, top), 0, baseLine, fatherId, labelRoot)

\* noteProcess: parse, render, annotate.  unified runs its synchronous
\* plugins inside process(), so all of this happens in the call itself
noteProcess(g, text, baseLine, fatherId, labelRoot) ==
  transformNote(g, ParseNote(text), baseLine, fatherId, labelRoot)

\* -------------------------------------------------------- extension.ts --
VARIABLES
  doc,            \* editor.document of the active editor, as lines
  panel,          \* the preview panel exists (and is visible)
  counter, map, mapFather, mapDepth, mapStartLine, mapEndLine,
  totalLines, mapLast, mapNext,
  messageQueue, isProcessing,
  tasks,          \* the async calls that are waiting at an await
  posted,         \* the last html message posted to the webview
  done,           \* the handleTextChange call that settled last
  nEdits, nEvents, \* how many edits / other editor events have happened
  \* parser.ts, one call of parseNote:
  noteText,       \* the text parseNote is called on
  input,          \* the text after normalization
  lines, columns, \* the line and the column of each index of input
  index,          \* the loop variable of the main scan
  indentLevel, blockStack,
  ast,            \* the tree parseNote returned
  log,            \* what was tried at every '@' and '+' the scan came to
  runs            \* the calls of parseNativeMarkdown the main scan made

vars == <<doc, panel, counter, map, mapFather, mapDepth, mapStartLine, mapEndLine,
          totalLines, mapLast, mapNext, messageQueue, isProcessing, tasks, posted,
          done, nEdits, nEvents,
          noteText, input, lines, columns, index, indentLevel, blockStack, ast, log, runs>>
parserVars ==
  <<noteText, input, lines, columns, index, indentLevel, blockStack, ast, log, runs>>

\* The program state as one record, so that the handlers compose
Now ==
  [doc |-> doc, panel |-> panel,
   g |-> Tree(counter, map, mapFather, mapDepth, mapStartLine, mapEndLine),
   totalLines |-> totalLines, mapLast |-> mapLast, mapNext |-> mapNext,
   messageQueue |-> messageQueue, isProcessing |-> isProcessing,
   tasks |-> tasks, posted |-> posted, done |-> done]

Becomes(next) ==
  \E s \in {next} :
    /\ doc' = s.doc /\ panel' = s.panel
    /\ counter' = s.g.counter /\ map' = s.g.map /\ mapFather' = s.g.mapFather
    /\ mapDepth' = s.g.mapDepth /\ mapStartLine' = s.g.mapStartLine
    /\ mapEndLine' = s.g.mapEndLine
    /\ totalLines' = s.totalLines /\ mapLast' = s.mapLast /\ mapNext' = s.mapNext
    /\ messageQueue' = s.messageQueue /\ isProcessing' = s.isProcessing
    /\ tasks' = s.tasks /\ posted' = s.posted /\ done' = s.done
    /\ UNCHANGED parserVars

NoMessage == [command |-> "none", x |-> 0, y |-> 0, fat |-> 0]
NoChange == [startLine |-> 0, endLine |-> 0, textLines |-> 0, seq |-> 0]
NoTree == Tree(0, <<>>, <<>>, <<>>, <<>>, <<>>)

\* One async call.  kind: "init" (showPreview waiting for noteProcessInit),
\* "doc" (handleDocChange waiting for noteProcess), "text" (processQueue
\* waiting for handleTextChange, which waits for noteProcess), "none".
\* outcome of a handleTextChange call: "partial", "fallback", "nopanel",
\* "threw", "hung" (findLCA never ends).  change .. preTotalLines keep what
\* the call computed, the tree it started from and the excerpt it
\* re-parsed, for the properties.
Task(kind) ==
  [kind |-> kind, x |-> 0, y |-> 0, fat |-> 0, editorTotalLines |-> 0,
   change |-> NoChange, outcome |-> "none", last |-> 0, next |-> 0,
   xLine |-> 0, yLine |-> 0, newYLine |-> 0, deltaLength |-> 0,
   pre |-> NoTree, preTotalLines |-> 0, raw |-> <<>>]

\* a cleanUp without lines 61-66: the counter and the arrays are kept
cleanUp_keeps(s) ==
  [s EXCEPT !.totalLines = 0, !.mapLast = <<>>, !.mapNext = <<>>,
            !.messageQueue = <<>>, !.isProcessing = FALSE]
cleanUp(s) ==
  [s EXCEPT !.totalLines = 0, !.mapLast = <<>>, !.mapNext = <<>>,
            !.g = Tree(0, SetLength(s.g.map, 1), SetLength(s.g.mapFather, 1),
                       SetLength(s.g.mapDepth, 1), SetLength(s.g.mapStartLine, 1),
                       SetLength(s.g.mapEndLine, 1)),
            !.messageQueue = <<>>, !.isProcessing = FALSE]

\* !v for the values a map entry can take
Falsy(v) == v = undefined \/ v = NaN \/ v = 0

RECURSIVE FillForward(_, _)
FillForward(a, i) ==
  IF i >= Len(a) THEN a
  ELSE FillForward(IF Falsy(At(a, i)) THEN SetAt(a, i, At(a, i - 1)) ELSE a, i + 1)
RECURSIVE FillBackward(_, _)
FillBackward(a, i) ==
  IF i < 0 THEN a
  ELSE FillBackward(IF Falsy(At(a, i)) THEN SetAt(a, i, At(a, i + 1)) ELSE a, i - 1)

updateMapLastNext(s) ==
  [s EXCEPT !.mapLast = FillForward(s.g.map, 1),
            !.mapNext = FillBackward(s.g.map, Len(s.g.map) - 2)]

\* a handleDocChange that returns at once
handleDocChange_returns(s) == s
\* handleDocChange up to its await
handleDocChange(s) ==
  IF ~s.panel THEN s
  ELSE LET m == extendMapArray(s.g.map, Len(s.doc))
       IN [s EXCEPT !.totalLines = Len(s.doc),
                    !.g = noteProcess([s.g EXCEPT !.map = m], s.doc, 0, 0, TRUE),
                    !.tasks = Append(@, Task("doc"))]

\* findLCA; n bounds the number of loop iterations left, and ok = FALSE
\* says that the loops do not end
RECURSIVE ClimbDeeper(_, _, _, _)
ClimbDeeper(g, x, y, n) ==
  \* while (mapDepth[x] > mapDepth[y]) x = mapFather[x];
  IF ~JsGt(At(g.mapDepth, x), At(g.mapDepth, y)) THEN [v |-> x, ok |-> TRUE]
  ELSE IF n = 0 THEN [v |-> x, ok |-> FALSE]
  ELSE ClimbDeeper(g, At(g.mapFather, x), y, n - 1)
\* findLCA without the loop of lines 159-162
ClimbBoth_once(g, x, y, n) ==
  [x |-> x, y |-> y, fat |-> At(g.mapFather, x), ok |-> TRUE]
RECURSIVE ClimbBoth(_, _, _, _)
ClimbBoth(g, x, y, n) ==
  \* while (mapFather[x] !== mapFather[y]) { x = mapFather[x]; y = mapFather[y]; }
  IF JsEq(At(g.mapFather, x), At(g.mapFather, y))
  THEN [x |-> x, y |-> y, fat |-> At(g.mapFather, x), ok |-> TRUE]
  ELSE IF n = 0 THEN [x |-> x, y |-> y, fat |-> undefined, ok |-> FALSE]
  ELSE ClimbBoth(g, At(g.mapFather, x), At(g.mapFather, y), n - 1)
findLCA(g, last, next) ==
  LET n == g.counter + 1
      cx == ClimbDeeper(g, last, next, n)
      cy == ClimbDeeper(g, next, cx.v, n)
  IN IF ~cx.ok \/ ~cy.ok THEN [x |-> cx.v, y |-> cy.v, fat |-> undefined, ok |-> FALSE]
     ELSE IF JsEq(cx.v, cy.v)
          THEN [x |-> cx.v, y |-> cx.v, fat |-> At(g.mapFather, cx.v), ok |-> TRUE]
          ELSE ClimbBoth(g, cx.v, cy.v, n)

\* lines 189-192 without the test against yLine
ShiftLines_all(a, cnt, yLine, deltaLength) ==
  [k \in 1..Len(a) |-> IF k - 1 >= 1 /\ k - 1 <= cnt THEN JsAdd(a[k], deltaLength) ELSE a[k]]
\* lines 189-192: the lines of the elements after yLine move by deltaLength
ShiftLines(a, cnt, yLine, deltaLength) ==
  [k \in 1..Len(a) |->
     IF k - 1 >= 1 /\ k - 1 <= cnt /\ JsGt(a[k], yLine)
     THEN JsAdd(a[k], deltaLength) ELSE a[k]]

\* line 196 left out: the map is not moved when lines are inserted
MoveDown_none(m, i, yLine, deltaLength) == m
\* line 196: for (let i = totalLines; i > yLine; i--) map[i + deltaLength] = map[i]
RECURSIVE MoveDown(_, _, _, _)
MoveDown(m, i, yLine, deltaLength) ==
  IF ~JsGt(i, yLine) THEN m
  ELSE MoveDown(SetAt(m, i + deltaLength, At(m, i)), i - 1, yLine, deltaLength)
\* line 198: for (let i = yLine + 1; i <= totalLines; i++) map[i + deltaLength] = map[i]
RECURSIVE MoveUp(_, _, _, _)
MoveUp(m, i, tot, deltaLength) ==
  IF ~(IsNum(i) /\ i <= tot) THEN m
  ELSE MoveUp(SetAt(m, i + deltaLength, At(m, i)), i + 1, tot, deltaLength)

\* lines 194-199 without line 200, which clears the range
SpliceMap_keeps(m, tot, editorTotalLines, xLine, yLine, newYLine, deltaLength) ==
  LET m1 == extendMapArray(m, editorTotalLines)
  IN IF deltaLength > 0 THEN MoveDown(m1, tot, yLine, deltaLength)
     ELSE MoveUp(m1, JsAdd(yLine, 1), tot, deltaLength)
\* lines 194-200 on the line->id map
SpliceMap(m, tot, editorTotalLines, xLine, yLine, newYLine, deltaLength) ==
  LET m1 == extendMapArray(m, editorTotalLines)
      m2 == IF deltaLength > 0 THEN MoveDown(m1, tot, yLine, deltaLength)
            ELSE MoveUp(m1, JsAdd(yLine, 1), tot, deltaLength)
  IN Fill(m2, xLine, newYLine, undefined)

\* getTextFromLineRange: lineAt throws for a line that is not in the document
CanGetText(d, start, end) ==
  IsNum(start) /\ IsNum(end) /\ start >= 1 /\ start <= end /\ end <= Len(d)

\* Which id an edit boundary resolves to (lines 169-170)
ResolveLast(s, startLine) ==
  IF At(s.mapLast, startLine) /= undefined
  THEN At(s.mapLast, startLine) ELSE At(s.mapNext, startLine)
ResolveNext(s, endLine) ==
  IF At(s.mapNext, endLine) /= undefined
  THEN At(s.mapNext, endLine) ELSE At(s.mapLast, endLine)
NeedsFullRender(last, next) == last = undefined \/ next = undefined

\* handleTextChange up to its await or, if it does not get there, to its
\* end.  The result holds the new state and the call's record t; the call
\* waits for noteProcess exactly when t.outcome = "partial".
handleTextChange(s, change) ==
  LET t0 == [Task("text") EXCEPT !.change = change, !.pre = s.g,
                                 !.preTotalLines = s.totalLines]
  IN
  IF ~s.panel THEN [s |-> s, t |-> [t0 EXCEPT !.outcome = "nopanel"]]
  ELSE
  LET startLine == change.startLine
      endLine == change.endLine
      newEndLine == startLine + change.textLines - 1
      deltaLength == newEndLine - endLine
      last == ResolveLast(s, startLine)
      next == ResolveNext(s, endLine)
      t1 == [t0 EXCEPT !.last = last, !.next = next, !.deltaLength = deltaLength]
  IN
  IF NeedsFullRender(last, next)
  THEN [s |-> handleDocChange(s), t |-> [t1 EXCEPT !.outcome = "fallback"]]
  ELSE
  LET lca == findLCA(s.g, last, next)
      xLine == JsMin(At(s.g.mapStartLine, lca.x), startLine)
      yLine == JsMax(At(s.g.mapEndLine, lca.y), endLine)
      newYLine == JsAdd(yLine, deltaLength)
      editorTotalLines == Len(s.doc)
      t2 == [t1 EXCEPT !.x = lca.x, !.y = lca.y, !.fat = lca.fat,
                       !.xLine = xLine, !.yLine = yLine, !.newYLine = newYLine,
                       !.editorTotalLines = editorTotalLines]
  IN
  IF ~lca.ok THEN [s |-> s, t |-> [t2 EXCEPT !.outcome = "hung"]]
  ELSE
  LET g1 == [s.g EXCEPT
               !.mapStartLine = ShiftLines(@, s.g.counter, yLine, deltaLength),
               !.mapEndLine = ShiftLines(@, s.g.counter, yLine, deltaLength),
               !.map = SpliceMap(@, s.totalLines, editorTotalLines,
                                 xLine, yLine, newYLine, deltaLength)]
  IN
  IF ~CanGetText(s.doc, xLine, newYLine)
  THEN [s |-> [s EXCEPT !.g = g1], t |-> [t2 EXCEPT !.outcome = "threw"]]
  ELSE [s |-> [s EXCEPT !.g = noteProcess(g1, SubSeq(s.doc, xLine, newYLine),
                                          xLine - 1, lca.fat, FALSE)],
        t |-> [t2 EXCEPT !.outcome = "partial",
                         !.raw = SubSeq(s.doc, xLine, newYLine)]]

\* processQueue.  A handleTextChange call that ends without waiting lets
\* the worker go on with the next message at once; findLCA not ending
\* stops the extension for good
Hung(s) == \E i \in DOMAIN s.tasks : s.tasks[i].outcome = "hung"
\* a processQueue without lines 253-254: when handleTextChange has ended,
\* isProcessing stays set and the next message is not taken
processQueue_stalls(s) ==
  IF s.isProcessing \/ s.messageQueue = <<>> THEN s
  ELSE LET r == handleTextChange([s EXCEPT !.isProcessing = TRUE,
                                           !.messageQueue = Tail(@)],
                                 Head(s.messageQueue))
       IN IF r.t.outcome \in {"partial", "hung"}
          THEN [r.s EXCEPT !.tasks = Append(@, r.t)]
          ELSE [r.s EXCEPT !.done = r.t]
RECURSIVE processQueue(_)
processQueue(s) ==
  IF s.isProcessing \/ s.messageQueue = <<>> THEN s
  ELSE LET r == handleTextChange([s EXCEPT !.isProcessing = TRUE,
                                           !.messageQueue = Tail(@)],
                                 Head(s.messageQueue))
       IN IF r.t.outcome \in {"partial", "hung"}
          THEN [r.s EXCEPT !.tasks = Append(@, r.t)]
          ELSE processQueue([r.s EXCEPT !.isProcessing = FALSE, !.done = r.t])

\* an enqueueMessage without line 238: the message is pushed and
\* processQueue is not called
enqueueMessage_push(s, change) ==
  [s EXCEPT !.messageQueue = Append(@, change)]
enqueueMessage(s, change) ==
  processQueue([s EXCEPT !.messageQueue = Append(@, change)])

\* ----------------------------------------------------------- actions ----
Remove(q, i) == SubSeq(q, 1, i - 1) \o SubSeq(q, i + 1, Len(q))

\* parseNote is not running
NullNode == [type |-> "null", class |-> "", start |-> 0, end |-> 0, children |-> <<>>]
ParserIdle ==
  /\ noteText = <<>> /\ input = <<>> /\ lines = <<>> /\ columns = <<>>
  /\ index = 0 /\ indentLevel = 0
  /\ blockStack = <<>> /\ ast = NullNode /\ log = <<>> /\ runs = <<>>

\* The state after activate(): no panel, empty maps, nothing queued
InitWith(docs) ==
  /\ doc \in docs
  /\ panel = FALSE
  /\ counter = 0 /\ map = <<undefined>> /\ mapFather = <<0>> /\ mapDepth = <<-1>>
  /\ mapStartLine = <<-1>> /\ mapEndLine = <<-1>>
  /\ totalLines = 0 /\ mapLast = <<>> /\ mapNext = <<>>
  /\ messageQueue = <<>> /\ isProcessing = FALSE
  /\ tasks = <<>> /\ posted = NoMessage /\ done = Task("none")
  /\ nEdits = 0 /\ nEvents = 0
  /\ ParserIdle

\* The command notesaw.showPreview up to `await noteProcessInit(...)`
ShowPreview ==
  /\ ~Hung(Now)
  /\ nEvents < MaxEvents
  /\ nEvents' = nEvents + 1 /\ nEdits' = nEdits
  /\ Becomes([Now EXCEPT !.panel = TRUE, !.tasks = Append(@, Task("init"))])

\* ... and after it: panel.webview.html = resHtml throws without a panel,
\* otherwise handleDocChange starts
ShowPreviewResume(i) ==
  /\ ~Hung(Now)
  /\ i \in DOMAIN tasks /\ tasks[i].kind = "init"
  /\ Becomes(handleDocChange([Now EXCEPT !.tasks = Remove(@, i)]))
  /\ UNCHANGED <<nEdits, nEvents>>

\* onDidChangeTextDocument with one content change: lines startLine..endLine
\* are replaced by the lines of text; limit bounds the number of edits of
\* a run
DidChangeTextDocumentWithin(limit, startLine, endLine, text) ==
  /\ ~Hung(Now)
  /\ nEdits < limit
  /\ startLine >= 1 /\ startLine <= endLine /\ endLine <= Len(doc)
  /\ nEdits' = nEdits + 1 /\ nEvents' = nEvents
  /\ LET after == SubSeq(doc, 1, startLine - 1) \o text \o SubSeq(doc, endLine + 1, Len(doc))
         change == [startLine |-> startLine, endLine |-> endLine,
                    textLines |-> Len(text), seq |-> nEdits + 1]
         s == [Now EXCEPT !.doc = after]
     IN Becomes(IF panel THEN enqueueMessage(s, change) ELSE s)
DidChangeTextDocument(startLine, endLine, text) ==
  DidChangeTextDocumentWithin(MaxEdits, startLine, endLine, text)

\* onDidChangeActiveTextEditor: another Markdown document becomes active
DidChangeActiveTextEditor(d) ==
  /\ ~Hung(Now)
  /\ nEvents < MaxEvents
  /\ nEvents' = nEvents + 1 /\ nEdits' = nEdits
  /\ LET s == [Now EXCEPT !.doc = d]
     IN Becomes(IF panel THEN handleDocChange(cleanUp(s)) ELSE s)

\* panel.onDidDispose
DidDispose ==
  /\ ~Hung(Now)
  /\ panel
  /\ nEvents < MaxEvents
  /\ nEvents' = nEvents + 1 /\ nEdits' = nEdits
  /\ Becomes([cleanUp(Now) EXCEPT !.panel = FALSE])

\* handleDocChange after its await; postMessage throws without a panel
DocResume(i) ==
  /\ ~Hung(Now)
  /\ i \in DOMAIN tasks /\ tasks[i].kind = "doc"
  /\ LET s == updateMapLastNext([Now EXCEPT !.tasks = Remove(@, i)])
     IN Becomes(IF panel
                THEN [s EXCEPT !.posted = [NoMessage EXCEPT !.command = "updateHtml"]]
                ELSE s)
  /\ UNCHANGED <<nEdits, nEvents>>

\* handleTextChange after its await, then processQueue after its await
TextResume(i) ==
  /\ ~Hung(Now)
  /\ i \in DOMAIN tasks /\ tasks[i].kind = "text"
  /\ LET t == tasks[i]
         s1 == [updateMapLastNext(Now) EXCEPT !.totalLines = t.editorTotalLines,
                                              !.tasks = Remove(@, i)]
         s2 == IF panel
               THEN [s1 EXCEPT !.posted = [command |-> "partialUpdateHtml",
                                           x |-> t.x, y |-> t.y, fat |-> t.fat],
                               !.done = t]
               ELSE [s1 EXCEPT !.done = [t EXCEPT !.outcome = "threw"]]
     IN Becomes(processQueue([s2 EXCEPT !.isProcessing = FALSE]))
  /\ UNCHANGED <<nEdits, nEvents>>

Step ==
  \E i \in DOMAIN tasks :
    \/ ShowPreviewResume(i)
    \/ DocResume(i)
    \/ TextResume(i)

Edit ==
  \E a \in 1..Len(doc), b \in 1..Len(doc), text \in SessionTexts :
    DidChangeTextDocument(a, b, text)

Init == InitWith(SessionDocs)
Next ==
  \/ ShowPreview
  \/ Edit
  \/ \E d \in SessionDocs : DidChangeActiveTextEditor(d)
  \/ DidDispose
  \/ Step
Spec == Init /\ [][Next]_vars

\* One preview session with one edit: the preview is opened on a document,
\* the full render completes, then one text change arrives and is processed
Idle == panel /\ tasks = <<>> /\ messageQueue = <<>> /\ ~isProcessing
InitEdit == InitWith(Docs)
OpenPreview == ~panel /\ ShowPreview
EditIdle ==
  /\ Idle
  /\ nEdits = 0
  /\ \E a \in 1..Len(doc), b \in 1..Len(doc), text \in Texts :
       DidChangeTextDocument(a, b, text)
NextEdit ==
  \/ OpenPreview
  \/ EditIdle
  \/ Step
SpecEdit == InitEdit /\ [][NextEdit]_vars

\* One preview session without a reset: the full render of Show Preview,
\* then edits (handled incrementally or by the fallback's full render),
\* each handled to its end before the next one arrives
InitSession == InitWith(SeqDocs)
EditSession ==
  /\ Idle
  /\ \E a \in 1..Len(doc), b \in 1..Len(doc), text \in SeqTexts :
       DidChangeTextDocument(a, b, text)
NextSession ==
  \/ OpenPreview
  \/ EditSession
  \/ Step
SpecSession == InitSession /\ [][NextSession]_vars

\* One preview session in which edits arrive at any time, also while an
\* earlier edit is being handled.  A call that waits for noteProcess is
\* resumed by the event loop once the promise settles, hence weak fairness
\* of Step.  StepEnabled is ENABLED <<Step>>_vars written out: every waiting
\* call has its resume action, whose only guards are these; StepFair is
\* WF_vars(Step) with it
StepEnabled == tasks /= <<>> /\ ~Hung(Now)
StepFair == []<>(~StepEnabled) \/ []<><<Step>>_vars
InitLive == InitWith(SessionDocs)
EditLive == panel /\ Edit
NextLive ==
  \/ OpenPreview
  \/ EditLive
  \/ Step
SpecLive == InitLive /\ [][NextLive]_vars /\ StepFair

\* The command notesaw.export_to_html up to its await: noteProcess runs the
\* transformer on the whole document, with the module-level arrays of
\* transformer.ts.  What follows the await writes the file and changes
\* nothing of the state
ExportHtml ==
  /\ ~Hung(Now)
  /\ nEvents < MaxEvents
  /\ nEvents' = nEvents + 1 /\ nEdits' = nEdits
  /\ Becomes([Now EXCEPT !.g = noteProcess(@, doc, 0, 0, TRUE)])
\* The command notesaw.export_to_pdf up to its first await:
\* noteProcessConvert calls extendMapArray and runs the same transformer
noteProcessConvert(g, text) ==
  noteProcess([g EXCEPT !.map = extendMapArray(@, Len(text))], text, 0, 0, TRUE)
ExportPdf ==
  /\ ~Hung(Now)
  /\ nEvents < MaxEvents
  /\ nEvents' = nEvents + 1 /\ nEdits' = nEdits
  /\ Becomes([Now EXCEPT !.g = noteProcessConvert(@, doc)])

\* One preview session with one edit, as in SpecEdit, in which the document
\* is also exported
NextExport ==
  \/ OpenPreview
  \/ EditIdle
  \/ ExportHtml
  \/ ExportPdf
  \/ Step
SpecExport == InitSession /\ [][NextExport]_vars

\* onDidChangeTextDocument with two content changes in one event (an edit
\* with two cursors, a replace-all): lo and hi replace two ranges of the
\* document as it was before the event, lo above hi, and contentChanges
\* holds them in either order.  The handler passes contentChanges[0] to
\* enqueueMessage
DidChangeTextDocumentTwo(lo, hi, contentChanges) ==
  /\ ~Hung(Now)
  /\ nEdits + 2 <= MaxEdits
  /\ lo.startLine >= 1 /\ lo.startLine <= lo.endLine /\ lo.endLine < hi.startLine
  /\ hi.startLine <= hi.endLine /\ hi.endLine <= Len(doc)
  /\ contentChanges \in {<<lo, hi>>, <<hi, lo>>}
  /\ nEdits' = nEdits + 2 /\ nEvents' = nEvents
  /\ LET after == SubSeq(doc, 1, lo.startLine - 1) \o lo.text
                    \o SubSeq(doc, lo.endLine + 1, hi.startLine - 1) \o hi.text
                    \o SubSeq(doc, hi.endLine + 1, Len(doc))
         change == [startLine |-> contentChanges[1].startLine,
                    endLine |-> contentChanges[1].endLine,
                    textLines |-> Len(contentChanges[1].text), seq |-> nEdits + 1]
         s == [Now EXCEPT !.doc = after]
     IN Becomes(IF panel THEN enqueueMessage(s, change) ELSE s)

\* One preview session with one event of two content changes, which
\* arrives when the preview has rendered the document
EditTwo ==
  /\ Idle
  /\ \E lo, hi \in [startLine : 1..Len(doc), endLine : 1..Len(doc), text : SessionTexts] :
       \E contentChanges \in {<<lo, hi>>, <<hi, lo>>} :
         DidChangeTextDocumentTwo(lo, hi, contentChanges)
NextTwo ==
  \/ OpenPreview
  \/ EditTwo
  \/ Step
SpecTwo == InitSession /\ [][NextTwo]_vars

\* One preview session in which up to MaxQueueEdits edits arrive, each when
\* the preview is up to date or while the worker is handling an earlier
\* edit; an edit replaces one or more lines by one line
EditQueue ==
  /\ Idle \/ isProcessing
  /\ \E a \in 1..Len(doc), b \in 1..Len(doc), text \in SessionTexts :
       DidChangeTextDocumentWithin(MaxQueueEdits, a, b, text)
NextQueue ==
  \/ OpenPreview
  \/ EditQueue
  \/ Step
SpecQueue == InitSession /\ [][NextQueue]_vars

\* findLCA alone: any tree the transformer can build (an element is pushed
\* after its father, with its father's depth plus one) and any two of its
\* ids.  The call's result is kept in done.
RECURSIVE DepthsOf(_, _)
DepthsOf(f, d) ==
  IF Len(d) = Len(f) THEN d
  ELSE DepthsOf(f, Append(d, At(d, f[Len(d) + 1]) + 1))
FatherArrays(n) ==
  {f \in [1..(n + 1) -> 0..n] : f[1] = 0 /\ \A k \in 2..(n + 1) : f[k] < k - 1}
InitLCA ==
  /\ \E n \in 1..MaxIds : \E f \in FatherArrays(n) :
       /\ counter = n
       /\ mapFather = f
       /\ mapDepth = DepthsOf(f, <<-1>>)
  /\ doc = <<"blank">> /\ panel = FALSE
  /\ map = <<undefined>> /\ mapStartLine = <<-1>> /\ mapEndLine = <<-1>>
  /\ totalLines = 0 /\ mapLast = <<>> /\ mapNext = <<>>
  /\ messageQueue = <<>> /\ isProcessing = FALSE
  /\ tasks = <<>> /\ posted = NoMessage /\ done = Task("none")
  /\ nEdits = 0 /\ nEvents = 0
  /\ ParserIdle
CallFindLCA(last, next) ==
  /\ done.kind = "none"
  /\ LET lca == findLCA(Now.g, last, next)
     IN done' = [Task("text") EXCEPT !.last = last, !.next = next,
                                     !.x = lca.x, !.y = lca.y, !.fat = lca.fat,
                                     !.outcome = IF lca.ok THEN "lca" ELSE "hung"]
  /\ UNCHANGED <<doc, panel, counter, map, mapFather, mapDepth, mapStartLine,
                 mapEndLine, totalLines, mapLast, mapNext, messageQueue,
                 isProcessing, tasks, posted, nEdits, nEvents>>
  /\ UNCHANGED parserVars
NextLCA == \E last \in 1..counter, next \in 1..counter : CallFindLCA(last, next)
SpecLCA == InitLCA /\ [][NextLCA]_vars

\* ------------------------------------- parser.ts, character by character ----
\* A text is a sequence of characters.  The lines of the texts tried are an
\* indentation (nothing, 2 spaces, 4 spaces, a tab) followed by one of:
\*   @a {    @a {x    +@a x    x    {    }
MaxParseLines == 3
MaxInnerLines == 2

\* /[a-z]/
Letters ==
  {"a", "b", "c", "d", "e", "f", "g", "h", "i", "j", "k", "l", "m", "n", "o",
   "p", "q", "r", "s", "t", "u", "v", "w", "x", "y", "z"}
Indents == {<<>>, <<" ", " ">>, <<" ", " ", " ", " ">>, <<"\t">>}
Bodies ==
  {<<"@", "a", " ", "{">>, <<"@", "a", " ", "{", "x">>, <<"+", "@", "a", " ", "x">>,
   <<"x">>, <<"{">>, <<"}">>}
ParseLines == {ind \o body : ind \in Indents, body \in Bodies}
RECURSIVE Join(_)
Join(ls) ==
  IF ls = <<>> THEN <<>>
  ELSE IF Len(ls) = 1 THEN ls[1]
  ELSE ls[1] \o <<"\n">> \o Join(Tail(ls))
\* texts of up to MaxParseLines lines, and texts of up to MaxInnerLines
\* lines between `@a {` and `}`
ParseTexts(n, inner) ==
  {Join(d) : d \in SeqsUpTo(ParseLines, n)}
  \cup {Join(<<(<<"@", "a", " ", "{">>)>> \o d \o <<(<<"}">>)>>) :
          d \in SeqsUpTo(ParseLines, inner)}

\* a block of up to inner lines whose closing '}' is followed by more on
\* its line, alone or with a line of text after it
ClosedTexts(inner) ==
  {Join(<<(<<"@", "a", " ", "{">>)>> \o d \o <<closer>> \o after) :
     d \in SeqsUpTo(ParseLines, inner),
     closer \in {<<"}", "x">>, <<"}", " ", "x">>},
     after \in {<<>>, <<(<<"x">>)>>}}

\* a block and an inline block of every label of the abbreviation table of
\* BLOCKLABEL.md, of two labels that are not in it, and of no label at all
Labels ==
  {<<"t", "h", "m">>, <<"p", "r", "o", "p">>, <<"c", "o", "r">>, <<"d", "e", "f">>,
   <<"w", "a", "r", "n">>, <<"v", "a", "r", "s">>, <<"v", "a", "r">>,
   <<"a", "l", "g">>, <<"p", "r", "o", "b">>, <<"s", "o", "l">>,
   <<"n", "o", "t", "e">>, <<"t", "h">>, <<>>}
LabelTexts ==
  {link \o <<"@">> \o label \o rest :
     link \in {<<>>, <<"+">>}, label \in Labels,
     rest \in {<<" ", "{", "\n", "}">>, <<" ", "x">>, <<"{">>, <<"*", " ", "x">>}}

\* two lines with each kind of line break between them
Breaks == {<<"\n">>, <<"\r">>, <<"\r", "\n">>}
BreakTexts ==
  {first \o break \o second \o last :
     first \in {<<"x">>, <<"@", "a", " ", "{">>, <<"\t", "x">>},
     break \in Breaks,
     second \in {<<"@", "a", " ", "x">>, <<"\t", "@", "a", " ", "x">>, <<"}">>},
     last \in {<<>>} \cup Breaks}

\* a block, or a block in a block, with a line in which four characters
\* that are not all spaces come before a marker
PrefixTexts ==
  {Join(outer \o <<prefix \o marker>>) :
     outer \in {<<(<<"@", "a", " ", "{">>)>>,
                <<(<<"@", "a", " ", "{">>), (<<"\t", "@", "a", " ", "{">>)>>},
     prefix \in {<<"x", "x", "x", "x">>, <<"x", " ", " ", " ">>,
                 <<" ", " ", "x", " ">>},
     marker \in {<<"@", "a", " ", "{">>, <<"@", "a", " ", "x">>,
                 <<"+", "@", "a", " ", "x">>, <<"}">>}}

\* every text of up to n characters that are a letter, a tab or a part of
\* a line break
MaxChars == 4
CharTexts(n) == SeqsUpTo({"x", "\t", "\r", "\n"}, n)

NoteTexts(n, inner, chars) ==
  ParseTexts(n, inner) \cup ClosedTexts(inner) \cup LabelTexts \cup BreakTexts
    \cup PrefixTexts \cup CharTexts(chars)

\* input[i]: no character when i is outside
CharAt(a, i) == IF i >= 0 /\ i < Len(a) THEN a[i + 1] ELSE "undefined"
\* a.slice(from, to)
Slice(a, from, to) ==
  IF from >= to \/ from >= Len(a) THEN <<>>
  ELSE SubSeq(a, from + 1, IF to < Len(a) THEN to ELSE Len(a))

NoteNode(type, class, start, end, children) ==
  [type |-> type, class |-> class, start |-> start, end |-> end,
   children |-> children]

\* lines 144-197 and 416-417: the loop over text[i] (i is 0-based), which
\* builds input, lines and columns in p; one more entry of lines and of
\* columns follows the last character
Position(line, column, inp, lns, cols) ==
  [line |-> line, column |-> column, input |-> inp, lines |-> lns, columns |-> cols]
appendNormalChar(p, char) ==
  Position(p.line, p.column + 1, Append(p.input, char),
           Append(p.lines, p.line), Append(p.columns, p.column))
\* a line break after which the column goes on counting
newline_column(p) ==
  Position(p.line + 1, p.column + 1, Append(p.input, "\n"),
           Append(p.lines, p.line), Append(p.columns, p.column))
newline(p) ==
  Position(p.line + 1, 1, Append(p.input, "\n"),
           Append(p.lines, p.line), Append(p.columns, p.column))
RECURSIVE Preprocess(_, _, _)
Preprocess(txt, i, p) ==
  IF i >= Len(txt)
  THEN [p EXCEPT !.lines = Append(@, p.line), !.columns = Append(@, p.column)]
  ELSE IF CharAt(txt, i) = "\r" /\ CharAt(txt, i + 1) = "\n"
       THEN Preprocess(txt, i + 2, newline(p))
  ELSE IF CharAt(txt, i) \in {"\n", "\r"}
       THEN Preprocess(txt, i + 1, newline(p))
  ELSE IF CharAt(txt, i) = "\t"
       THEN Preprocess(txt, i + 1,
                       appendNormalChar(appendNormalChar(appendNormalChar(
                         appendNormalChar(p, " "), " "), " "), " "))
  ELSE Preprocess(txt, i + 1, appendNormalChar(p, CharAt(txt, i)))

\* parseNativeMarkdown: the Markdown parser finds no node in a text of
\* spaces and newlines and null is returned; otherwise the run is kept
\* with the slice of the input it was given (start, end)
parseNativeMarkdown(str, trailSpaces, offset) ==
  IF \A k \in DOMAIN str : str[k] \in {" ", "\n"} THEN NullNode
  ELSE NoteNode("markdown", "", offset, offset + Len(str), <<>>)

\* what a match attempt returns; at is the function that returned
Result(at, endIndex, matchNode) ==
  [at |-> at, endIndex |-> endIndex, matchNode |-> matchNode]
nok(at) == Result(at, -1, NullNode)
Titled(node, class) ==
  IF node = NullNode THEN <<>> ELSE <<[node EXCEPT !.class = class]>>

\* the characters of a as one string
RECURSIVE Str(_)
Str(a) == IF a = <<>> THEN "" ELSE Head(a) \o Str(Tail(a))

abbrMap ==
  [thm |-> "theorem", prop |-> "proposition", cor |-> "corollary",
   def |-> "definition", warn |-> "warning", vars |-> "variables",
   var |-> "variables"]
\* ok() of parseBlockBegin (kind "block") and of parseInlineBlock (kind
\* "inline-block"): the class of the node
okClass(label, isLink, kind) ==
  (IF label \in DOMAIN abbrMap THEN abbrMap[label] ELSE label)
    \o "-" \o kind \o "-mdast" \o (IF isLink THEN " " \o kind \o "-link" ELSE "")

\* a checkPosition that accepts every column
checkPosition_any(cols, i, level) == TRUE
\* checkPosition of parseBlockBegin and of parseInlineBlock
checkPosition(cols, i, level) == At(cols, i) = level * 4 + 1

\* while (index < input.length && /[a-z]/.test(input[index])) index++
RECURSIVE SkipLabel(_, _)
SkipLabel(inp, i) ==
  IF i < Len(inp) /\ CharAt(inp, i) \in Letters THEN SkipLabel(inp, i + 1) ELSE i

\* the loop of parseBlockName: the index of the '{', input.length when
\* there is none, -1 when a row after the first holds more than spaces
RECURSIVE ScanName(_, _, _)
ScanName(inp, i, crossRow) ==
  IF i < Len(inp) /\ CharAt(inp, i) /= "{"
  THEN IF crossRow /\ CharAt(inp, i) /= " " THEN -1
       ELSE ScanName(inp, i + 1, crossRow \/ CharAt(inp, i) = "\n")
  ELSE i

parseBlockName(inp, beginIndex, start, class) ==
  IF CharAt(inp, start) \notin {"{", " "} THEN nok("parseBlockName")
  ELSE LET stop == ScanName(inp, start, FALSE)
       IN IF stop = -1 \/ stop = Len(inp) THEN nok("parseBlockName")
          ELSE IF stop + 1 /= Len(inp) /\ CharAt(inp, stop + 1) /= "\n"
               THEN nok("parseBlockName, line 295")
          ELSE Result("ok", stop + 1,
                      NoteNode("block", class, beginIndex, stop + 1,
                               Titled(parseNativeMarkdown(Slice(inp, start, stop), 0, start),
                                      "block-title-content")))

parseBlockBegin(inp, cols, level, beginIndex) ==
  IF ~checkPosition(cols, beginIndex, level) THEN nok("checkPosition")
  ELSE LET at == IF CharAt(inp, beginIndex) = "+" THEN beginIndex + 1 ELSE beginIndex
           i == SkipLabel(inp, at + 1)
           class == okClass(Str(Slice(inp, at + 1, i)), at /= beginIndex, "block")
       IN IF CharAt(inp, at) /= "@" \/ i = Len(inp) THEN nok("parseBlockLabel")
          ELSE IF CharAt(inp, i) \in {" ", "{", "\n"}
               THEN parseBlockName(inp, beginIndex, i, class)
          ELSE IF CharAt(inp, i) \in {"?", "!", "*"}
               THEN parseBlockName(inp, beginIndex, i + 1, class)
          ELSE nok("parseBlockStyle")

\* while (index < input.length && input[index] !== "\n") index++
RECURSIVE LineEnd(_, _)
LineEnd(inp, i) ==
  IF i < Len(inp) /\ CharAt(inp, i) /= "\n" THEN LineEnd(inp, i + 1) ELSE i

\* an inline block that matches without consuming anything
parseBlockContent_empty(inp, beginIndex, start, class) ==
  Result("ok", beginIndex,
         NoteNode("inline-block", class, beginIndex, beginIndex, <<>>))
parseBlockContent(inp, beginIndex, start, class) ==
  LET stop == LineEnd(inp, start)
  IN Result("ok", stop + 1,
            NoteNode("inline-block", class, beginIndex, stop + 1,
                     Titled(parseNativeMarkdown(Slice(inp, start, stop), 0, start),
                            "inline-block-content")))

parseInlineBlock(inp, cols, level, beginIndex) ==
  IF ~checkPosition(cols, beginIndex, level) THEN nok("checkPosition")
  ELSE LET at == IF CharAt(inp, beginIndex) = "+" THEN beginIndex + 1 ELSE beginIndex
           i == SkipLabel(inp, at + 1)
           class ==
             okClass(Str(Slice(inp, at + 1, i)), at /= beginIndex, "inline-block")
       IN IF CharAt(inp, at) /= "@" THEN nok("parseBlockLabel")
          ELSE IF i < Len(inp) /\ CharAt(inp, i) \in {" ", "{", "\n"}
               THEN parseBlockContent(inp, beginIndex, i, class)
          ELSE IF CharAt(inp, i) \in {"?", "!", "*"}
               THEN parseBlockContent(inp, beginIndex, i + 1, class)
          ELSE nok("parseBlockStyle")

\* one call parseNativeMarkdown(input.slice(last, to), indentLevel * 4, last)
\* of the main scan: its arguments, the scan index and the block stack's
\* length at the call, and the value current is given after it
RunCall(last, to, trailSpaces, at, depth, current) ==
  [start |-> last, end |-> to, trailSpaces |-> trailSpaces, index |-> at,
   depth |-> depth, current |-> current]

AddChild(node, child) ==
  IF child = NullNode THEN node ELSE [node EXCEPT !.children = Append(@, child)]
Top(stack) == stack[Len(stack)]
SetTop(stack, entry) == [stack EXCEPT ![Len(stack)] = entry]
Pop(stack) == SubSeq(stack, 1, Len(stack) - 1)
\* a push that takes the place of the top entry
Push_over(stack, entry) == SetTop(stack, entry)
\* line 472: blockStack.push({ node: selfNode, current: endIndex })
Push(stack, entry) == Append(stack, entry)

\* A block is pushed into its parent's children when it opens and is
\* filled afterwards through the same reference.  Here it is put into the
\* parent when it leaves the stack, which gives the same tree: the parent
\* gets no other child in between.
RECURSIVE Fold(_)
Fold(stack) ==
  IF Len(stack) = 1 THEN stack[1].node
  ELSE Fold(SetTop(Pop(stack),
                   [Top(Pop(stack)) EXCEPT !.node = AddChild(@, Top(stack).node)]))

Parsing == blockStack /= <<>> /\ ast = NullNode
ExtensionUnchanged ==
  UNCHANGED <<doc, panel, counter, map, mapFather, mapDepth, mapStartLine,
              mapEndLine, totalLines, mapLast, mapNext, messageQueue,
              isProcessing, tasks, posted, done, nEdits, nEvents>>

\* parseNote is called on a text
InitParse ==
  /\ noteText \in NoteTexts(MaxParseLines, MaxInnerLines, MaxChars)
  /\ input = <<>> /\ lines = <<>> /\ columns = <<>>
  /\ index = 0 /\ indentLevel = 0
  /\ blockStack = <<>>
  /\ ast = NullNode /\ log = <<>> /\ runs = <<>>
  /\ doc = <<>> /\ panel = FALSE
  /\ counter = 0 /\ map = <<undefined>> /\ mapFather = <<0>> /\ mapDepth = <<-1>>
  /\ mapStartLine = <<-1>> /\ mapEndLine = <<-1>>
  /\ totalLines = 0 /\ mapLast = <<>> /\ mapNext = <<>>
  /\ messageQueue = <<>> /\ isProcessing = FALSE
  /\ tasks = <<>> /\ posted = NoMessage /\ done = Task("none")
  /\ nEdits = 0 /\ nEvents = 0

\* The start of parseNote, up to the main scan: lines 144-197 and 415-438
Normalize ==
  /\ blockStack = <<>> /\ ast = NullNode
  /\ LET p == Preprocess(noteText, 0, Position(1, 1, <<>>, <<>>, <<>>))
     IN /\ input' = p.input /\ lines' = p.lines /\ columns' = p.columns
  /\ blockStack' = <<[node |-> NoteNode("root", "markdown-body", 0, 0, <<>>),
                      current |-> 0]>>
  /\ UNCHANGED <<noteText, index, indentLevel, ast, log, runs>>
  /\ ExtensionUnchanged

\* an update that lets the last result that is not null win
update_last(match, result) == IF result.at = "ok" THEN result ELSE match
\* update (lines 444-446): match takes the first result that is not null
update(match, result) ==
  IF match.at /= "ok" /\ result.at = "ok" THEN result ELSE match

\* One turn of the main scan at a '@' or a '+': lines 441-467
Attempt ==
  /\ Parsing /\ index < Len(input)
  /\ CharAt(input, index) \in {"@", "+"}
  /\ LET begin == parseBlockBegin(input, columns, indentLevel, index)
         inline == parseInlineBlock(input, columns, indentLevel, index)
         match == update(update(nok("match"), begin), inline)
         selfNode == match.matchNode
         lastBlock == Top(blockStack)
         run == parseNativeMarkdown(Slice(input, lastBlock.current, index),
                                    indentLevel * 4, lastBlock.current)
         parentNode == AddChild(lastBlock.node, run)
     IN /\ log' = Append(log, [index |-> index, column |-> At(columns, index),
                               indentLevel |-> indentLevel, begin |-> begin.at,
                               inline |-> inline.at, match |-> selfNode.type])
        /\ IF match.at /= "ok"
           THEN /\ index' = index + 1
                /\ UNCHANGED <<indentLevel, blockStack, runs>>
           ELSE /\ index' = match.endIndex
                /\ runs' = Append(runs, RunCall(lastBlock.current, index,
                                                indentLevel * 4, index,
                                                Len(blockStack), match.endIndex))
                /\ IF selfNode.type = "block"
                   THEN /\ indentLevel' = indentLevel + 1
                        /\ blockStack' =
                             Push(SetTop(blockStack, [lastBlock EXCEPT !.node = parentNode]),
                                  [node |-> selfNode, current |-> match.endIndex])
                   ELSE /\ indentLevel' = indentLevel
                        /\ blockStack' =
                             SetTop(blockStack, [node |-> AddChild(parentNode, selfNode),
                                                 current |-> match.endIndex])
  /\ UNCHANGED <<noteText, input, lines, columns, ast>>
  /\ ExtensionUnchanged

\* a test of line 469 that accepts every column
closePosition_any(cols, i, level) == TRUE
\* line 469: columns[index] === (indentLevel - 1) * 4 + 1
closePosition(cols, i, level) == At(cols, i) = (level - 1) * 4 + 1

\* a closing brace that leaves current of the block below as it was
afterClose_stale(below, i) == below.current
\* line 492: blockStack[blockStack.length - 1].current = index + 1
afterClose(below, i) == i + 1

\* One turn of the main scan at any other character: lines 468-486
ScanChar ==
  /\ Parsing /\ index < Len(input)
  /\ CharAt(input, index) \notin {"@", "+"}
  /\ IF /\ CharAt(input, index) = "}"
        /\ closePosition(columns, index, indentLevel)
        /\ Len(blockStack) > 1
     THEN LET popped == Top(blockStack)
              run == parseNativeMarkdown(Slice(input, popped.current, index),
                                         indentLevel * 4, popped.current)
              selfNode == [AddChild(popped.node, run) EXCEPT !.end = index + 1]
              below == Top(Pop(blockStack))
          IN /\ indentLevel' = indentLevel - 1
             /\ blockStack' = SetTop(Pop(blockStack),
                                     [node |-> AddChild(below.node, selfNode),
                                      current |-> afterClose(below, index)])
             /\ runs' = Append(runs, RunCall(popped.current, index,
                                             indentLevel * 4, index,
                                             Len(blockStack),
                                             afterClose(below, index)))
     ELSE UNCHANGED <<indentLevel, blockStack, runs>>
  /\ index' = index + 1
  /\ UNCHANGED <<noteText, input, lines, columns, ast, log>>
  /\ ExtensionUnchanged

\* what a caller of parseNote gets when parseNote throws
ErrorNode(message) == NoteNode("error", message, 0, 0, <<>>)
\* the end of the input as the revision with separators has it: an Error
\* is thrown when a block is still open, and the root is closed otherwise
EndOfInput_throws ==
  /\ Parsing /\ index >= Len(input)
  /\ IF Len(blockStack) > 1
     THEN /\ ast' = ErrorNode("Curly braces are not matched.")
          /\ UNCHANGED blockStack
     ELSE LET last == blockStack[1]
              run == parseNativeMarkdown(Slice(input, last.current, Len(input)),
                                         indentLevel * 4, last.current)
              node == [AddChild(last.node, run) EXCEPT !.end = Len(input)]
          IN /\ blockStack' = <<[last EXCEPT !.node = node]>>
             /\ ast' = node
  /\ UNCHANGED <<noteText, input, lines, columns, index, indentLevel, log, runs>>
  /\ ExtensionUnchanged
\* The end of the input: lines 500-505
EndOfInput ==
  /\ Parsing /\ index >= Len(input)
  /\ LET last == Top(blockStack)
         run == parseNativeMarkdown(Slice(input, last.current, Len(input)),
                                    indentLevel * 4, last.current)
         node == [AddChild(last.node, run) EXCEPT !.end = Len(input)]
     IN /\ blockStack' = SetTop(blockStack, [last EXCEPT !.node = node])
        /\ ast' = Fold(SetTop(blockStack, [last EXCEPT !.node = node]))
        /\ runs' = Append(runs, RunCall(last.current, Len(input), indentLevel * 4,
                                        index, Len(blockStack), last.current))
  /\ UNCHANGED <<noteText, input, lines, columns, index, indentLevel, log>>
  /\ ExtensionUnchanged

NextParse ==
  \/ Normalize
  \/ Attempt
  \/ ScanChar
  \/ EndOfInput
SpecParse == InitParse /\ [][NextParse]_vars
\* parseNote is synchronous code: once called it runs on while it has a
\* step to take, which is until it returns.  This is weak fairness of
\* NextParse, written out: a step of NextParse is possible exactly while
\* parseNote has not returned
ParseEnabled == ast = NullNode
ParseFair == []<>(~ParseEnabled) \/ []<><<NextParse>>_vars
SpecParseLive == InitParse /\ [][NextParse]_vars /\ ParseFair

\* ------------------ the parser revision with separators (part_006) ----
\* Blocks have a fixed list of labels, '=' lines separate the body of a
\* block from its extend section, there is no inline block and a tab is an
\* ordinary character.  The texts tried have lines of an indentation
\* (nothing, 2 spaces, 4 spaces) followed by one of:
\*   @def {    ===    ==    x    }
MaxSepLines == 2
MaxSepInner == 3

SepBodies ==
  {<<"@", "d", "e", "f", " ", "{">>, <<"=", "=", "=">>, <<"=", "=">>, <<"x">>, <<"}">>}
SepLines ==
  {ind \o body : ind \in {<<>>, <<" ", " ">>, <<" ", " ", " ", " ">>},
                 body \in SepBodies}
SepTexts(n, inner) ==
  {Join(d) : d \in SeqsUpTo(SepLines, n)}
  \cup {Join(<<(<<"@", "d", "e", "f", " ", "{">>)>> \o d \o <<(<<"}">>)>>) :
          d \in SeqsUpTo(SepLines, inner)}

\* lines 36-64: a line break of any kind becomes "\n", every other
\* character is kept
RECURSIVE Normalized(_, _, _)
Normalized(txt, i, p) ==
  IF i >= Len(txt)
  THEN [p EXCEPT !.lines = Append(@, p.line), !.columns = Append(@, p.column)]
  ELSE IF CharAt(txt, i) = "\r" /\ CharAt(txt, i + 1) = "\n"
       THEN Normalized(txt, i + 2, newline(p))
  ELSE IF CharAt(txt, i) \in {"\n", "\r"}
       THEN Normalized(txt, i + 1, newline(p))
  ELSE Normalized(txt, i + 1, appendNormalChar(p, CharAt(txt, i)))

\* a block node: a NoteNode with a state, "body" or "extend"
BlockNode(type, class, start, end, children, state) ==
  [type |-> type, class |-> class, start |-> start, end |-> end,
   children |-> children, state |-> state]

addHproperties(node, className) ==
  IF node.class = "" THEN [node EXCEPT !.class = className]
  ELSE [node EXCEPT !.class = @ \o " " \o className]
Marked(node, state) ==
  IF node = NullNode THEN node
  ELSE addHproperties(node, "block-" \o state \o "-mdast")

\* the parsers made by blockBeginParserGenerator, in the order the main
\* loop tries them
BlockKinds ==
  <<[abbr |-> <<"d", "e", "f">>, full |-> "definition"],
    [abbr |-> <<"a", "x", "i", "o", "m">>, full |-> "axiom"],
    [abbr |-> <<"t", "h", "m">>, full |-> "theorem"],
    [abbr |-> <<"l", "a", "w">>, full |-> "law"],
    [abbr |-> <<"p", "r", "o", "o", "f">>, full |-> "proof"],
    [abbr |-> <<"l", "e", "m", "m", "a">>, full |-> "lemma"],
    [abbr |-> <<"p", "r", "o", "p">>, full |-> "proposition"],
    [abbr |-> <<"c", "o", "r">>, full |-> "corollary"],
    [abbr |-> <<"n", "o", "t", "e">>, full |-> "note"],
    [abbr |-> <<"r", "e", "m", "a", "r", "k">>, full |-> "remark"],
    [abbr |-> <<"e", "x", "a", "m", "p", "l", "e">>, full |-> "example"],
    [abbr |-> <<"p", "r", "o", "b", "l", "e", "m">>, full |-> "problem"],
    [abbr |-> <<"s", "o", "l", "u", "t", "i", "o", "n">>, full |-> "solution"],
    [abbr |-> <<"w", "a", "r", "n">>, full |-> "warning"],
    [abbr |-> <<"v", "a", "r", "s">>, full |-> "variables"],
    [abbr |-> <<"b", "l", "o", "c", "k">>, full |-> "custom"]>>
\* node.type.endsWith("-block")
IsBlock(node) ==
  node.type \in {Str(BlockKinds[k].abbr) \o "-block" : k \in DOMAIN BlockKinds}

\* the loop of parseDefName: the index of the '{', -1 when the row or the
\* input ends before it
RECURSIVE ScanDefName(_, _)
ScanDefName(inp, i) ==
  IF CharAt(inp, i) = "{" THEN i
  ELSE IF CharAt(inp, i) = "\n" \/ i + 1 >= Len(inp) THEN -1
  ELSE ScanDefName(inp, i + 1)

parseDefName(inp, kind, isLink, beginIndex, start) ==
  IF CharAt(inp, start) \notin {"{", " "} THEN nok("parseDefName")
  ELSE LET stop == ScanDefName(inp, start)
       IN IF stop = -1 THEN nok("parseDefName")
          ELSE Result("ok", stop + 1,
                      BlockNode(Str(kind.abbr) \o "-block",
                                kind.full \o "-block-mdast"
                                  \o (IF isLink THEN " block-link" ELSE ""),
                                beginIndex, stop + 1,
                                Titled(parseNativeMarkdown(Slice(inp, start, stop), 0, start),
                                       "block-title-mdast"),
                                "body"))

\* parseBlockBegin of blockBeginParserGenerator(kind.abbr, kind.full)
blockBeginParserGenerator(kind, inp, cols, level, beginIndex) ==
  IF ~checkPosition(cols, beginIndex, level) THEN nok("checkPosition")
  ELSE LET at == IF CharAt(inp, beginIndex) = "+" THEN beginIndex + 1 ELSE beginIndex
           i == at + 1 + Len(kind.abbr)
       IN IF Slice(inp, at, i) /= <<"@">> \o kind.abbr THEN nok("parseDefIdentifier")
          ELSE IF CharAt(inp, i) \in {" ", "{", "\n"}
               THEN parseDefName(inp, kind, at /= beginIndex, beginIndex, i)
          ELSE IF CharAt(inp, i) \in {"?", "!", "*"}
               THEN parseDefName(inp, kind, at /= beginIndex, beginIndex, i + 1)
          ELSE nok("parseDefStyle")

\* while (index < input.length && input[index] === "=") index++
RECURSIVE SkipEquals(_, _)
SkipEquals(inp, i) ==
  IF i < Len(inp) /\ CharAt(inp, i) = "=" THEN SkipEquals(inp, i + 1) ELSE i
\* from i to the end of the row (forward) or to its start (backward) there
\* are only spaces
RECURSIVE OnlySpaces(_, _, _)
OnlySpaces(inp, i, step) ==
  IF i < 0 \/ i >= Len(inp) \/ CharAt(inp, i) = "\n" THEN TRUE
  ELSE CharAt(inp, i) = " " /\ OnlySpaces(inp, i + step, step)

blockSeparatorParser(inp, cols, level, beginIndex) ==
  IF ~checkPosition(cols, beginIndex, level) THEN nok("checkPosition")
  ELSE LET i == SkipEquals(inp, beginIndex)
       IN IF i - beginIndex < 3 THEN nok("parseBlockSeparator")
          ELSE IF ~OnlySpaces(inp, i, 1) THEN nok("parseBlockSeparator")
          ELSE IF ~OnlySpaces(inp, beginIndex - 1, -1) THEN nok("checkPreviousChars")
          ELSE Result("ok", LineEnd(inp, i),
                      NoteNode("block-separator", "", beginIndex, LineEnd(inp, i), <<>>))

\* update(...) of the main loop: the first parser that matches
RECURSIVE FirstBlockBegin(_, _, _, _, _)
FirstBlockBegin(k, inp, cols, level, beginIndex) ==
  IF k > Len(BlockKinds) THEN nok("update")
  ELSE LET r == blockBeginParserGenerator(BlockKinds[k], inp, cols, level, beginIndex)
       IN IF r.at = "ok" THEN r ELSE FirstBlockBegin(k + 1, inp, cols, level, beginIndex)

\* the state of a block after a separator in it; a state that goes back
\* to "body" at a second separator
separated_toggles(state) == IF state = "body" THEN "extend" ELSE "body"
separated(state) == IF state = "body" THEN "extend" ELSE state

InitSep ==
  /\ noteText \in SepTexts(MaxSepLines, MaxSepInner)
  /\ input = <<>> /\ lines = <<>> /\ columns = <<>>
  /\ index = 0 /\ indentLevel = 0
  /\ blockStack = <<>>
  /\ ast = NullNode /\ log = <<>> /\ runs = <<>>
  /\ doc = <<>> /\ panel = FALSE
  /\ counter = 0 /\ map = <<undefined>> /\ mapFather = <<0>> /\ mapDepth = <<-1>>
  /\ mapStartLine = <<-1>> /\ mapEndLine = <<-1>>
  /\ totalLines = 0 /\ mapLast = <<>> /\ mapNext = <<>>
  /\ messageQueue = <<>> /\ isProcessing = FALSE
  /\ tasks = <<>> /\ posted = NoMessage /\ done = Task("none")
  /\ nEdits = 0 /\ nEvents = 0

\* The start of parseNote, up to the main loop: lines 29-64 and 351-373
SepNormalize ==
  /\ blockStack = <<>> /\ ast = NullNode
  /\ LET p == Normalized(noteText, 0, Position(1, 1, <<>>, <<>>, <<>>))
     IN /\ input' = p.input /\ lines' = p.lines /\ columns' = p.columns
  /\ blockStack' = <<[node |-> NoteNode("root", "markdown-body", 0, 0, <<>>),
                      current |-> 0]>>
  /\ UNCHANGED <<noteText, index, indentLevel, ast, log, runs>>
  /\ ExtensionUnchanged

\* One turn of the main loop at a '@', a '+' or a '=': lines 375-448
SepAttempt ==
  /\ Parsing /\ index < Len(input)
  /\ CharAt(input, index) \in {"@", "+", "="}
  /\ LET match == IF CharAt(input, index) = "="
                  THEN blockSeparatorParser(input, columns, indentLevel, index)
                  ELSE FirstBlockBegin(1, input, columns, indentLevel, index)
         selfNode == match.matchNode
         lastBlock == Top(blockStack)
         run == parseNativeMarkdown(Slice(input, lastBlock.current, index),
                                    indentLevel * 4, lastBlock.current)
         parentNode ==
           IF lastBlock.node.type = "root" THEN AddChild(lastBlock.node, run)
           ELSE IF IsBlock(lastBlock.node)
                THEN AddChild(lastBlock.node, Marked(run, lastBlock.node.state))
           ELSE lastBlock.node
     IN /\ log' = Append(log, [index |-> index, match |-> selfNode.type,
                               parent |-> lastBlock.node.start,
                               depth |-> Len(blockStack)])
        /\ IF match.at /= "ok"
           THEN /\ index' = index + 1
                /\ UNCHANGED <<indentLevel, blockStack>>
           ELSE /\ index' = match.endIndex
                /\ IF IsBlock(selfNode)
                   THEN /\ indentLevel' = indentLevel + 1
                        /\ blockStack' =
                             Append(SetTop(blockStack, [lastBlock EXCEPT !.node = parentNode]),
                                    [node |-> IF IsBlock(parentNode)
                                              THEN Marked(selfNode, parentNode.state)
                                              ELSE selfNode,
                                     current |-> match.endIndex])
                   ELSE /\ indentLevel' = indentLevel
                        /\ blockStack' =
                             SetTop(blockStack,
                                    [node |-> IF IsBlock(parentNode)
                                              THEN [parentNode EXCEPT
                                                      !.state = separated(@)]
                                              ELSE parentNode,
                                     current |-> match.endIndex])
  /\ UNCHANGED <<noteText, input, lines, columns, ast, runs>>
  /\ ExtensionUnchanged

\* One turn of the main loop at any other character: lines 449-470
SepScanChar ==
  /\ Parsing /\ index < Len(input)
  /\ CharAt(input, index) \notin {"@", "+", "="}
  /\ IF /\ CharAt(input, index) = "}"
        /\ closePosition(columns, index, indentLevel)
        /\ Len(blockStack) > 1
     THEN LET popped == Top(blockStack)
              run == parseNativeMarkdown(Slice(input, popped.current, index),
                                         indentLevel * 4, popped.current)
              selfNode == [AddChild(popped.node, Marked(run, popped.node.state))
                             EXCEPT !.end = index + 1]
              below == Top(Pop(blockStack))
          IN /\ indentLevel' = indentLevel - 1
             /\ blockStack' = SetTop(Pop(blockStack),
                                     [node |-> AddChild(below.node, selfNode),
                                      current |-> index + 1])
     ELSE UNCHANGED <<indentLevel, blockStack>>
  /\ index' = index + 1
  /\ UNCHANGED <<noteText, input, lines, columns, ast, log, runs>>
  /\ ExtensionUnchanged

\* The end of the input: lines 472-481
SepEndOfInput ==
  /\ Parsing /\ index >= Len(input)
  /\ IF Len(blockStack) > 1
     THEN /\ ast' = ErrorNode("Curly braces are not matched.")
          /\ UNCHANGED blockStack
     ELSE LET last == blockStack[1]
              run == parseNativeMarkdown(Slice(input, last.current, Len(input)),
                                         indentLevel * 4, last.current)
              node == [AddChild(last.node, run) EXCEPT !.end = Len(input)]
          IN /\ blockStack' = <<[last EXCEPT !.node = node]>>
             /\ ast' = node
  /\ UNCHANGED <<noteText, input, lines, columns, index, indentLevel, log, runs>>
  /\ ExtensionUnchanged

NextSep ==
  \/ SepNormalize
  \/ SepAttempt
  \/ SepScanChar
  \/ SepEndOfInput
SpecSep == InitSep /\ [][NextSep]_vars

\* ------------------------------------------------------- properties ----
\* v and the ids above it, by father pointers
RECURSIVE Chain(_, _, _)
Chain(g, v, n) ==
  IF v = 0 \/ n = 0 \/ ~IsNum(v) THEN {v}
  ELSE {v} \cup Chain(g, At(g.mapFather, v), n - 1)
SelfAndAncestors(g, v) == Chain(g, v, g.counter + 1)
Ancestors(g, v) == Chain(g, At(g.mapFather, v), g.counter + 1)
LowestCommonAncestor(g, a, b) ==
  LET common == Ancestors(g, a) \cap Ancestors(g, b)
  IN CHOOSE c \in common : \A c2 \in common : At(g.mapDepth, c2) <= At(g.mapDepth, c)

\* The tree of the spec's example: siblings 1, 2, 3 under 0 on lines 1-5,
\* 6-10 and 11-15
ExampleTree ==
  Tree(3, <<undefined>> \o [i \in 1..15 |-> ((i - 1) \div 5) + 1],
       <<0, 0, 0, 0>>, <<-1, 0, 0, 0>>, <<-1, 1, 6, 11>>, <<-1, 5, 10, 15>>)
ExampleState == updateMapLastNext([g |-> ExampleTree, mapLast |-> <<>>, mapNext |-> <<>>])

\* C4: findLCA(last, next) ends and returns x, y, fat with x = last or above
\* last, y = next or above next and mapFather[x] = mapFather[y] = fat; when
\* neither id is above the other, fat is the lowest id above both.  In the
\* example an edit of lines 4-12 resolves last = 1, next = 3, fat = 0 and
\* the run 1..3 holds id 2.
C4_FindLCA ==
  /\ done.kind = "text" =>
       /\ done.outcome = "lca"
       /\ done.x \in SelfAndAncestors(Now.g, done.last)
       /\ done.y \in SelfAndAncestors(Now.g, done.next)
       /\ At(mapFather, done.x) = done.fat
       /\ At(mapFather, done.y) = done.fat
       /\ (done.last \notin Ancestors(Now.g, done.next)
           /\ done.next \notin Ancestors(Now.g, done.last))
          => done.fat = LowestCommonAncestor(Now.g, done.last, done.next)
  /\ LET last == ResolveLast(ExampleState, 4)
         next == ResolveNext(ExampleState, 12)
         lca == findLCA(ExampleTree, last, next)
     IN /\ last = 1 /\ next = 3
        /\ lca = [x |-> 1, y |-> 3, fat |-> 0, ok |-> TRUE]
        /\ 2 \in lca.x..lca.y
\* findLCA has answered for two ids of which neither is above the other
\* and whose fathers differ
C4_Witness ==
  /\ done.kind = "text" /\ done.outcome = "lca"
  /\ done.last \notin SelfAndAncestors(Now.g, done.next)
  /\ done.next \notin SelfAndAncestors(Now.g, done.last)
  /\ At(mapFather, done.last) /= At(mapFather, done.next)
  /\ done.x /= done.last

\* The re-parses that have started and not yet run to their end
InFlight == {i \in DOMAIN tasks : tasks[i].kind \in {"doc", "text"}}
DocsInFlight(q) == Cardinality({i \in DOMAIN q : q[i].kind = "doc"})

\* C1: at most one re-parse that writes the tree is in flight at any time
C1_AtMostOneInFlight == Cardinality(InFlight) <= 1

\* C2: edits are handled in the order they arrived: while handleTextChange
\* of an edit waits for its patch, no later edit's handleTextChange has
\* started
C2_Fifo ==
  \A i \in DOMAIN tasks :
    tasks[i].kind = "text" =>
      /\ \A j \in DOMAIN tasks :
           tasks[j].kind = "text" /\ j /= i => FALSE
      /\ done.kind = "text" => done.change.seq < tasks[i].change.seq

\* C5: a handleTextChange call that finds no id at startLine or at endLine
\* starts a full re-parse (one more handleDocChange waits for noteProcess),
\* posts no partialUpdateHtml (a message posted in the same step is the
\* patch of the earlier edit that has just ended), does not throw, and
\* leaves the worker ready: it is idle with an empty queue, or it already
\* handles the next edit
C5_Fallback ==
  [][(done' /= done /\ done'.outcome = "fallback") =>
       /\ NeedsFullRender(done'.last, done'.next)
       /\ DocsInFlight(tasks') > DocsInFlight(tasks)
       /\ posted' /= posted =>
            \E i \in DOMAIN tasks :
              /\ tasks[i].kind = "text"
              /\ tasks[i].change.seq < done'.change.seq
              /\ \A j \in DOMAIN tasks' : tasks'[j].change /= tasks[i].change
              /\ posted' = [command |-> "partialUpdateHtml", x |-> tasks[i].x,
                            y |-> tasks[i].y, fat |-> tasks[i].fat]
       /\ isProcessing' => \E i \in DOMAIN tasks' :
                             /\ tasks'[i].kind = "text"
                             /\ tasks'[i].change.seq > done'.change.seq
       /\ ~isProcessing' => messageQueue' = <<>>]_vars
\* an edit fell back to the full re-parse, which has posted updateHtml, and
\* the worker has handled the edit that came after it
C5_Witness ==
  /\ done.kind = "text" /\ done.outcome = "fallback"
  /\ NeedsFullRender(done.last, done.next)
  /\ posted.command = "updateHtml"
  /\ DocsInFlight(tasks) = 0
  /\ \E i \in DOMAIN tasks :
       tasks[i].kind = "text" /\ tasks[i].change.seq > done.change.seq

\* The handleTextChange calls that went past the fallback test and are
\* waiting for noteProcess or have ended
Handled ==
  {t \in {done} \cup {tasks[i] : i \in DOMAIN tasks} :
     t.kind = "text" /\ t.outcome \in {"partial", "threw", "hung"}}
Patched == {t \in Handled : t.outcome = "partial"}

\* C6: xLine = min(mapStartLine[x], startLine), yLine = max(mapEndLine[y],
\* endLine), newYLine = yLine + deltaLines with deltaLines = (startLine +
\* lines of the text - 1) - endLine; so the range xLine..newYLine holds
\* every line the edit touched, starts no later than x and ends no earlier
\* than the shifted end of y
C6_Range ==
  \A t \in Handled :
    LET startLine == t.change.startLine
        endLine == t.change.endLine
        newEndLine == startLine + t.change.textLines - 1
        xStart == At(t.pre.mapStartLine, t.x)
        yEnd == At(t.pre.mapEndLine, t.y)
    IN /\ t.deltaLength = newEndLine - endLine
       /\ IsNum(xStart) /\ IsNum(yEnd)
       /\ t.xLine = (IF xStart < startLine THEN xStart ELSE startLine)
       /\ t.yLine = (IF yEnd > endLine THEN yEnd ELSE endLine)
       /\ t.newYLine = t.yLine + t.deltaLength
       /\ t.xLine <= startLine /\ t.yLine >= endLine /\ t.xLine <= t.newYLine
       /\ newEndLine <= t.newYLine
       /\ t.xLine <= xStart /\ t.newYLine >= yEnd + t.deltaLength
\* an edit that changes the number of lines was handled incrementally and
\* its range is wider than the edit on both sides
C6_Witness ==
  \E t \in Patched :
    /\ t.deltaLength /= 0
    /\ t.xLine < t.change.startLine
    /\ t.yLine > t.change.endLine


\* C7: after an incremental edit an element that began after yLine has its
\* first and last line moved by deltaLines, and an element that ended
\* before xLine keeps both
C7_ShiftFrame ==
  \A t \in Patched : \A id \in 1..t.pre.counter :
    LET s0 == At(t.pre.mapStartLine, id)
        e0 == At(t.pre.mapEndLine, id)
    IN /\ s0 > t.yLine =>
            /\ At(mapStartLine, id) = s0 + t.deltaLength
            /\ At(mapEndLine, id) = e0 + t.deltaLength
       /\ e0 < t.xLine =>
            /\ At(mapStartLine, id) = s0
            /\ At(mapEndLine, id) = e0
\* such an edit with elements on both sides of the re-parsed range
C7_Witness ==
  \E t \in Patched :
    /\ t.deltaLength /= 0
    /\ \E id \in 1..t.pre.counter : At(t.pre.mapStartLine, id) > t.yLine
    /\ \E id \in 1..t.pre.counter : At(t.pre.mapEndLine, id) < t.xLine

\* C8: after an incremental edit the line->id map outside the re-parsed
\* range is the old map moved by deltaLines: map'[i + deltaLines] = map[i]
\* for yLine < i <= totalLines, and map'[i] = map[i] for i < xLine
C8_MapFrame ==
  \A t \in Patched :
    /\ \A i \in 1..t.preTotalLines :
         i > t.yLine => At(map, i + t.deltaLength) = At(t.pre.map, i)
    /\ \A i \in 1..t.preTotalLines :
         i < t.xLine => At(map, i) = At(t.pre.map, i)

\* C9: after an incremental edit every line of xLine..newYLine maps to
\* undefined or to an id allocated by this edit's re-parse
C9_RegionFresh ==
  \A t \in Patched : \A i \in t.xLine..t.newYLine :
    At(map, i) = undefined \/ At(map, i) > t.pre.counter
\* the range held lines with older ids, and holds lines with new ids now
C9_Witness ==
  \E t \in Patched :
    /\ \E i \in t.xLine..t.yLine : At(t.pre.map, i) /= undefined
    /\ \E i \in t.xLine..t.newYLine : At(map, i) > t.pre.counter
    /\ \E i \in t.xLine..t.newYLine : At(map, i) = undefined


\* The nodes below the root of a rendered tree: how many, and their lines
\* (moved by base) with their level below the root
RECURSIVE NodeCount(_)
NodeCount(kids) ==
  IF kids = <<>> THEN 0
  ELSE 1 + NodeCount(Head(kids).kids) + NodeCount(Tail(kids))
RECURSIVE NodeSet(_, _, _)
NodeSet(kids, level, base) ==
  IF kids = <<>> THEN {}
  ELSE {<<Head(kids).s + base, Head(kids).e + base, level>>}
       \cup NodeSet(Head(kids).kids, level + 1, base)
       \cup NodeSet(Tail(kids), level, base)

\* C10: in an incremental re-parse the root wrapper of the excerpt gets no
\* id, every top-level element of the excerpt is recorded with father fat
\* and depth mapDepth[fat] + 1, and every new id has the lines of its node
\* in the excerpt plus baseLine = xLine - 1, inside xLine..newYLine
C10_ExcerptIds ==
  \A t \in Patched :
    LET top == ParseNote(t.raw)
        new == (t.pre.counter + 1)..counter
        d0 == At(mapDepth, t.fat)
    IN /\ Cardinality(new) = NodeCount(top)
       /\ Cardinality({id \in new : At(mapFather, id) = t.fat}) = Len(top)
       /\ \A id \in new :
            /\ At(mapFather, id) = t.fat \/ At(mapFather, id) \in new
            /\ At(mapDepth, id) = At(mapDepth, At(mapFather, id)) + 1
            /\ t.xLine <= At(mapStartLine, id)
            /\ At(mapStartLine, id) <= At(mapEndLine, id)
            /\ At(mapEndLine, id) <= t.newYLine
       /\ {<<At(mapStartLine, id), At(mapEndLine, id), At(mapDepth, id) - d0>> :
             id \in new} = NodeSet(top, 1, t.xLine - 1)
\* an excerpt that does not start at line 1 was re-parsed into more than
\* one top-level element, one of them with children
C10_Witness ==
  \E t \in Patched :
    /\ t.xLine > 1
    /\ Len(ParseNote(t.raw)) > 1
    /\ NodeCount(ParseNote(t.raw)) > Len(ParseNote(t.raw))
    /\ counter = t.pre.counter + NodeCount(ParseNote(t.raw))

\* The tree a full re-parse of a document builds from the cleaned-up state
FullRender(d) ==
  noteProcess(Tree(0, extendMapArray(<<undefined>>, Len(d)), <<0>>, <<-1>>, <<-1>>, <<-1>>),
              d, 0, 0, TRUE)
\* What a line maps to: nothing, or an element with its first and last line
LineElement(g, i) ==
  IF At(g.map, i) = undefined THEN <<>>
  ELSE <<At(g.mapStartLine, At(g.map, i)), At(g.mapEndLine, At(g.map, i))>>

\* C3: once a single edit has been handled incrementally, every line of
\* the document maps to the same element (none, or one with the same
\* lines) as after a full re-parse of the document
C3_SameAsFull ==
  (done.kind = "text" /\ done.outcome = "partial" /\ tasks = <<>>) =>
    /\ Len(map) = Len(FullRender(doc).map)
    /\ \A i \in 1..Len(doc) : LineElement(Now.g, i) = LineElement(FullRender(doc), i)


\* The elements of the current rendered tree: the ids some line maps to,
\* and the ids above them
CurrentIds ==
  UNION {SelfAndAncestors(Now.g, At(map, i)) :
           i \in {j \in 1..(Len(map) - 1) : At(map, j) /= undefined}} \ {0}

\* C11: every element of the current tree has startLine <= endLine and
\* lies inside the lines of its father
C11_RangesNested ==
  \A id \in CurrentIds :
    /\ At(mapStartLine, id) <= At(mapEndLine, id)
    /\ At(mapFather, id) /= 0 =>
         /\ At(mapStartLine, At(mapFather, id)) <= At(mapStartLine, id)
         /\ At(mapEndLine, id) <= At(mapEndLine, At(mapFather, id))


\* C12: every tracked id i >= 1 has mapDepth[i] = mapDepth[mapFather[i]] + 1,
\* and the sentinel 0 has depth -1 and is its own father
C12_Depths ==
  /\ At(mapDepth, 0) = -1 /\ At(mapFather, 0) = 0
  /\ \A id \in 1..counter :
       /\ IsNum(At(mapFather, id)) /\ IsNum(At(mapDepth, id))
       /\ At(mapDepth, id) = At(mapDepth, At(mapFather, id)) + 1
\* an incremental re-parse has added elements three levels below the root
\* to the ones of the full render
C12_Witness ==
  /\ done.kind = "text" /\ done.outcome = "partial"
  /\ done.pre.counter > 0
  /\ \E id \in (done.pre.counter + 1)..counter : At(mapDepth, id) >= 3


Annotated == Idle /\ panel /\ nEdits = 0 /\ counter > 0

\* C14: once the document has been annotated, every line inside an element
\* maps to some id: the lines no child covers, those between two consecutive
\* children included, were given to the element
C14_GapsAssigned ==
  Annotated =>
    \A e \in CurrentIds :
      \A i \in At(mapStartLine, e)..At(mapEndLine, e) : At(map, i) /= undefined

\* a step in which cleanUp ran: the panel was disposed of or another editor
\* became active
Reset ==
  /\ panel /\ nEvents' /= nEvents
  /\ tasks' /= Append(tasks, Task("init"))

Ids(m) == {At(m, i) : i \in 1..(Len(m) - 1)} \ {undefined}

\* C15: in a step without a reset the counter never goes down, the ids
\* handed out are counter + 1 .. counter', each with its own entry in the
\* arrays, the ids handed out before keep their elements, and an id that
\* enters the line map is one of the new ones or was tracked before
C15_FreshIds ==
  [][~Reset =>
       /\ counter' >= counter
       /\ Len(mapFather') = counter' + 1 /\ Len(mapDepth') = counter' + 1
       /\ Len(mapStartLine') = counter' + 1 /\ Len(mapEndLine') = counter' + 1
       /\ \A id \in 1..counter :
            /\ At(mapFather', id) = At(mapFather, id)
            /\ At(mapDepth', id) = At(mapDepth, id)
       /\ Ids(map') \subseteq 1..counter'
       /\ \A id \in (counter + 1)..counter' : At(mapFather', id) < id
    ]_vars

\* an incremental update has handed out ids beyond those of the renders
\* before it
C15_Witness ==
  /\ done.kind = "text" /\ done.outcome = "partial"
  /\ done.pre.counter > 0
  /\ counter > done.pre.counter
  /\ Ids(map) \cap ((done.pre.counter + 1)..counter) /= {}

\* the state the spec describes for a reset
Cleaned(s) ==
  /\ s.g.counter = 0
  /\ s.g.map = <<undefined>> /\ s.g.mapFather = <<0>> /\ s.g.mapDepth = <<-1>>
  /\ s.g.mapStartLine = <<-1>> /\ s.g.mapEndLine = <<-1>>
  /\ s.mapLast = <<>> /\ s.mapNext = <<>>
  /\ s.messageQueue = <<>> /\ s.isProcessing = FALSE
CleanedNow == Cleaned(Now)

\* C16: whatever state cleanUp runs in, it leaves the counter at 0, the
\* five arrays with their sentinel entry only, mapLast and mapNext empty,
\* the queue empty and isProcessing false; the step that disposes of the
\* panel ends in that state
C16_CleanUp ==
  /\ [](Cleaned(cleanUp(Now)))
  /\ [][panel /\ ~panel' => CleanedNow']_vars

\* the panel was disposed of while an incremental update of a rendered
\* document was waiting: the state is clean, the update is still to resume
C16_Witness ==
  /\ ~panel /\ CleanedNow
  /\ \E i \in DOMAIN tasks :
       /\ tasks[i].kind = "text"
       /\ tasks[i].pre.counter > 0

\* the handleTextChange calls that wait, and the edits not yet settled:
\* the one being handled first, then the queue
TextTasks == SelectSeq(tasks, LAMBDA t : t.kind = "text")
PendingSeqs ==
  [i \in 1..(Len(TextTasks) + Len(messageQueue)) |->
     IF i <= Len(TextTasks) THEN TextTasks[i].change.seq
     ELSE messageQueue[i - Len(TextTasks)].seq]

\* no edit is skipped and none overtakes another: the edits not yet settled
\* are those after the last settled one, in the order they arrived, and
\* at most one of them has begun
InOrder ==
  /\ Len(TextTasks) <= 1
  /\ Len(PendingSeqs) = nEdits - done.change.seq
  /\ \A i \in DOMAIN PendingSeqs : PendingSeqs[i] = done.change.seq + i

\* an edit that has begun is left alone by the arrival of a later edit,
\* which is appended to the queue; it ends only by resuming
BegunStays ==
  \A i \in DOMAIN tasks :
    tasks[i].kind = "text" =>
      \/ /\ nEdits' = nEdits + 1
         /\ tasks' = tasks
         /\ Len(messageQueue') = Len(messageQueue) + 1
         /\ SubSeq(messageQueue', 1, Len(messageQueue)) = messageQueue
         /\ messageQueue'[Len(messageQueue')].seq = nEdits'
      \/ /\ nEdits' = nEdits
         /\ \/ \E j \in DOMAIN tasks' : tasks'[j] = tasks[i]
            \/ /\ done'.change.seq >= tasks[i].change.seq
               /\ \A j \in DOMAIN tasks' :
                    tasks'[j].kind = "text" =>
                      tasks'[j].change.seq > tasks[i].change.seq

\* C17: with the panel open and no reset, every edit that arrived is
\* eventually settled unless a handleTextChange call never returns; edits
\* are settled in their order of arrival, and an edit that has begun is not
\* cancelled, skipped or started again when a later edit arrives
C17_EveryEditSettled ==
  /\ []InOrder
  /\ [][BegunStays]_vars
  /\ \A k \in 1..MaxEdits :
       (nEdits >= k) ~> (done.change.seq >= k \/ Hung(Now))

\* an edit is being handled while a later edit waits in the queue
C17_Witness ==
  /\ panel
  /\ \E i \in DOMAIN tasks : tasks[i].kind = "text" /\ tasks[i].outcome = "partial"
  /\ messageQueue /= <<>>

\* index i of the input lies in a run of ordinary Markdown: a slice the
\* main scan handed to parseNativeMarkdown as a child of the root or of a
\* block
RECURSIVE InRun(_, _)
InRun(node, i) ==
  \E k \in DOMAIN node.children :
    LET c == node.children[k]
    IN \/ c.type = "markdown" /\ c.class = "" /\ c.start <= i /\ i < c.end
       \/ c.type = "block" /\ InRun(c, i)

\* C18: a '+' or '@' is taken as the start of a block or of an inline block
\* only at column indentLevel * 4 + 1; at any other column nothing is
\* recognized there and the character ends up in a run of ordinary Markdown
C18_ColumnGate ==
  \A k \in DOMAIN log :
    /\ log[k].match /= "null" => log[k].column = log[k].indentLevel * 4 + 1
    /\ (ast /= NullNode /\ log[k].column /= log[k].indentLevel * 4 + 1) =>
         /\ log[k].match = "null"
         /\ InRun(ast, log[k].index)

\* a text was parsed that has `@a {` at column 5 outside every block and
\* `@a {` indented by 2 spaces inside a block
C18_Witness ==
  /\ ast /= NullNode
  /\ \E k \in DOMAIN log :
       /\ log[k].column = 5 /\ log[k].indentLevel = 0
       /\ Slice(input, log[k].index, log[k].index + 4) = <<"@", "a", " ", "{">>
  /\ \E k \in DOMAIN log :
       /\ log[k].column = 3 /\ log[k].indentLevel = 1
       /\ Slice(input, log[k].index, log[k].index + 4) = <<"@", "a", " ", "{">>

\* the innermost open block, and the column its marker was recognized at
OpenBlocks == Len(blockStack) - 1
OpenColumn == At(columns, Top(blockStack).node.start)

\* every block and inline block at nesting depth d of the tree starts at
\* column d * 4 + 1
RECURSIVE Nested(_, _)
Nested(node, d) ==
  \A k \in DOMAIN node.children :
    LET c == node.children[k]
    IN /\ c.type \in {"block", "inline-block"} => At(columns, c.start) = d * 4 + 1
       /\ c.type = "block" => Nested(c, d + 1)

\* every block of the tree ends with a '}' in the column of its marker
RECURSIVE AllClosed(_)
AllClosed(node) ==
  \A k \in DOMAIN node.children :
    LET c == node.children[k]
    IN c.type = "block" =>
         /\ CharAt(input, c.end - 1) = "}"
         /\ At(columns, c.end - 1) = At(columns, c.start)
         /\ AllClosed(c)

\* the turn of the scan at a '}'
AtBrace == Parsing /\ index < Len(input) /\ CharAt(input, index) = "}"
BraceStep ==
  IF AtBrace /\ OpenBlocks > 0 /\ At(columns, index) = OpenColumn
  THEN /\ indentLevel' = indentLevel - 1
       /\ Len(blockStack') = Len(blockStack) - 1
       /\ \A k \in 1..(Len(blockStack') - 1) : blockStack'[k] = blockStack[k]
       /\ LET kids == Top(blockStack').node.children
          IN /\ Len(kids) = Len(blockStack[Len(blockStack')].node.children) + 1
             /\ kids[Len(kids)].type = "block"
             /\ kids[Len(kids)].start = Top(blockStack).node.start
             /\ kids[Len(kids)].end = index + 1
  ELSE /\ Len(blockStack') >= Len(blockStack)
       /\ AtBrace => blockStack' = blockStack /\ indentLevel' = indentLevel

\* C19: a '}' closes the innermost open block exactly when it stands in the
\* column where that block's marker was recognized, which is
\* (indentLevel - 1) * 4 + 1; it then takes exactly that block off the
\* stack, as the last child of the block around it, and indentLevel goes
\* down by 1; any other '}' changes nothing, and nothing else closes a
\* block.  In the tree returned every nested block is a child of the block
\* around it, and when every block has its '}' indentLevel ends at 0
C19_CloseBrace ==
  /\ [](Parsing =>
          /\ indentLevel = OpenBlocks
          /\ OpenBlocks > 0 => OpenColumn = (indentLevel - 1) * 4 + 1)
  /\ [](ast /= NullNode =>
          /\ Nested(ast, 0)
          /\ AllClosed(ast) => indentLevel = 0)
  /\ [][BraceStep]_vars

\* a block inside a block, each closed by its '}', has been parsed
C19_Witness ==
  /\ ast /= NullNode /\ AllClosed(ast) /\ indentLevel = 0
  /\ \E k \in DOMAIN ast.children :
       /\ ast.children[k].type = "block"
       /\ \E j \in DOMAIN ast.children[k].children :
            ast.children[k].children[j].type = "block"

\* the attempts of parseBlockBegin that got as far as the name and failed
\* there: no '{' on the row or on a next row of spaces, or a '{' that is
\* not the last character of its row
Malformed ==
  {k \in DOMAIN log : log[k].begin \in {"parseBlockName", "parseBlockName, line 295"}}

\* C20: a block-open attempt that fails in parseBlockName creates no node:
\* once the text is parsed, its characters are in a run of ordinary
\* Markdown
C20_MalformedIsText ==
  ast /= NullNode =>
    \A k \in Malformed :
      /\ log[k].match = "null"
      /\ InRun(ast, log[k].index)

\* how many blocks the nodes kids and their descendants are
RECURSIVE BlocksIn(_)
BlocksIn(kids) ==
  IF kids = <<>> THEN 0
  ELSE (IF Head(kids).type = "block" THEN 1 + BlocksIn(Head(kids).children) ELSE 0)
       + BlocksIn(Tail(kids))
\* the block-opens the scan has recognized
Opened == {k \in DOMAIN log : log[k].match = "block"}
\* the blocks that are still open, innermost last
OpenNodes == [k \in 1..OpenBlocks |-> blockStack[k + 1].node]

\* C21: parseNote returns a tree for every input and raises no error: once
\* the end of the input is reached the result is the root, every block
\* that was opened is in it whether or not a '}' closed it, and the
\* innermost block still open ends at the end of the input; a '}' met while
\* no block is open changes neither the stack nor indentLevel
C21_LenientEnd ==
  /\ [](ast /= NullNode =>
          /\ ast.type = "root"
          /\ BlocksIn(ast.children) = Cardinality(Opened)
          /\ OpenBlocks > 0 => Top(blockStack).node.end = Len(input))
  /\ [][(AtBrace /\ OpenBlocks = 0) =>
         (UNCHANGED <<blockStack, indentLevel>> /\ index' = index + 1)]_vars

\* a text that begins with a '}' and ends inside a block has been parsed
C21_Witness ==
  /\ ast /= NullNode /\ ast.type = "root"
  /\ CharAt(input, 0) = "}"
  /\ OpenBlocks > 0

\* every child of node lies within node's range and starts no earlier than
\* the child before it, and so on below
RECURSIVE Contained(_)
Contained(node) ==
  \A k \in DOMAIN node.children :
    LET c == node.children[k]
    IN /\ node.start <= c.start /\ c.start <= c.end /\ c.end <= node.end
       /\ k > 1 => node.children[k - 1].start <= c.start
       /\ Contained(c)

\* C22: in the tree parseNote returns the root spans offset 0 to the end of
\* the input, every other node's start and end lie within its parent's
\* range, and the children of every node are in the order of their starts;
\* also when blocks are open at the end of the input
C22_RangesNested ==
  ast /= NullNode =>
    /\ ast.start = 0 /\ ast.end = Len(input)
    /\ Contained(ast)

\* index i of the input lies in a node below node
RECURSIVE Covered(_, _)
Covered(node, i) ==
  \E k \in DOMAIN node.children :
    LET c == node.children[k]
    IN (c.start <= i /\ i < c.end) \/ Covered(c, i)
\* block c was closed by a '}'
Closed(c) ==
  /\ c.type = "block" /\ CharAt(input, c.end - 1) = "}"
  /\ At(columns, c.end - 1) = At(columns, c.start)
\* what follows the '}' of every closed block below node, up to the end of
\* its line, lies in no node of the tree
RECURSIVE RestOfLineIgnored(_)
RestOfLineIgnored(node) ==
  \A k \in DOMAIN node.children :
    LET c == node.children[k]
    IN /\ Closed(c) =>
            \A i \in c.end..(LineEnd(input, c.end) - 1) : ~Covered(ast, i)
       /\ RestOfLineIgnored(c)

\* C23: what follows the closing '}' of a block on the same line is
\* ignored: it is in no run handed to parseNativeMarkdown and in no other
\* node of the tree
C23_AfterBraceIgnored ==
  ast /= NullNode => RestOfLineIgnored(ast)

\* the abbreviation table of BLOCKLABEL.md
Abbreviations ==
  [thm |-> "theorem", prop |-> "proposition", cor |-> "corollary",
   def |-> "definition", warn |-> "warning", vars |-> "variables",
   var |-> "variables", alg |-> "algorithm", prob |-> "problem",
   sol |-> "solution"]
FullName(label) ==
  IF label \in DOMAIN Abbreviations THEN Abbreviations[label] ELSE label
\* the label written in the input at the marker of node c
LabelStart(c) == IF CharAt(input, c.start) = "+" THEN c.start + 2 ELSE c.start + 1
Written(c) == Str(Slice(input, LabelStart(c), SkipLabel(input, LabelStart(c))))
\* every block and inline block below node has the class of the full name
\* of its label
RECURSIVE FullyNamed(_)
FullyNamed(node) ==
  \A k \in DOMAIN node.children :
    LET c == node.children[k]
    IN c.type \in {"block", "inline-block"} =>
         /\ c.class = FullName(Written(c)) \o "-" \o c.type \o "-mdast"
                        \o (IF CharAt(input, c.start) = "+"
                            THEN " " \o c.type \o "-link" ELSE "")
         /\ FullyNamed(c)

\* C24: the class of every block and inline block begins with the full name
\* of its label when the label is in the abbreviation table of BLOCKLABEL.md
\* (thm, prop, cor, def, warn, vars, var, alg, prob, sol) and with the label
\* itself otherwise
C24_LabelExpanded ==
  ast /= NullNode => FullyNamed(ast)

\* the separators recognized so far inside the block that starts at start
Separators(start) ==
  {k \in DOMAIN log : /\ log[k].match = "block-separator"
                       /\ log[k].depth > 1 /\ log[k].parent = start}
\* the section a child that starts at offset at of that block belongs to
Section(start, at) ==
  IF \E k \in Separators(start) : log[k].index < at THEN "extend" ELSE "body"
BlockClasses ==
  {BlockKinds[k].full \o "-block-mdast" \o link :
     k \in DOMAIN BlockKinds, link \in {"", " block-link"}}
\* block b has the state, and its runs and nested blocks the marks, that
\* the separators in it give them; and so on below
RECURSIVE Partitioned(_)
Partitioned(b) ==
  /\ IsBlock(b) => b.state = (IF Separators(b.start) = {} THEN "body" ELSE "extend")
  /\ \A k \in DOMAIN b.children :
       LET c == b.children[k]
           mark == "block-" \o Section(b.start, c.start) \o "-mdast"
       IN /\ (IsBlock(b) /\ c.type = "markdown" /\ c.class /= "block-title-mdast")
               => c.class = mark
          /\ (IsBlock(b) /\ IsBlock(c))
               => c.class \in {class \o " " \o mark : class \in BlockClasses}
          /\ Partitioned(c)
\* the last attempt of the scan recognized a separator
SeparatorStep ==
  /\ Len(log') = Len(log) + 1
  /\ log'[Len(log')].match = "block-separator"
\* one step of the parser, as to the states of the open blocks
StateStep ==
  /\ \A k \in 2..Len(blockStack) :
       (k <= Len(blockStack') /\ blockStack'[k].node.start = blockStack[k].node.start) =>
         LET before == blockStack[k].node.state
             after == blockStack'[k].node.state
         IN /\ before = "extend" => after = "extend"
            /\ (SeparatorStep /\ k = Len(blockStack)) => after = "extend"
            /\ ~(SeparatorStep /\ k = Len(blockStack)) => after = before
  /\ SeparatorStep =>
       /\ Len(blockStack') = Len(blockStack) /\ indentLevel' = indentLevel
       /\ \A k \in 1..(Len(blockStack) - 1) : blockStack'[k] = blockStack[k]

\* C25: in the revision with separators, a separator recognized in a block
\* whose state is "body" makes the state "extend"; the state never goes
\* back to "body" and a separator in a block that is already "extend"
\* leaves it so; the runs and nested blocks attached before the first
\* separator of a block are marked block-body-mdast, those attached after
\* it block-extend-mdast
C25_Separator ==
  /\ [](\A k \in DOMAIN blockStack : Partitioned(blockStack[k].node))
  /\ [](ast.type = "root" => Partitioned(ast))
  /\ [][StateStep]_vars

\* a block with a run before a separator and a run after it has been parsed
C25_Witness ==
  /\ ast.type = "root"
  /\ \E k \in DOMAIN ast.children :
       LET b == ast.children[k]
       IN /\ IsBlock(b) /\ b.state = "extend" /\ Len(b.children) = 2
          /\ b.children[1].class = "block-body-mdast"
          /\ b.children[2].class = "block-extend-mdast"

\* the text with CRLF, CR and LF each turned into one "\n" and each tab
\* into 4 spaces
RECURSIVE Folded(_)
Folded(txt) ==
  IF txt = <<>> THEN <<>>
  ELSE IF Head(txt) = "\r" /\ Len(txt) > 1 /\ txt[2] = "\n"
       THEN <<"\n">> \o Folded(Tail(Tail(txt)))
  ELSE IF Head(txt) \in {"\r", "\n"} THEN <<"\n">> \o Folded(Tail(txt))
  ELSE IF Head(txt) = "\t" THEN <<" ", " ", " ", " ">> \o Folded(Tail(txt))
  ELSE <<Head(txt)>> \o Folded(Tail(txt))
\* the offsets before offset k that hold a line break
BreaksBefore(k) == {j \in 0..(k - 1) : CharAt(input, j) = "\n"}
\* the offset at which the line of offset k starts
LineStart(k) ==
  IF BreaksBefore(k) = {} THEN 0
  ELSE 1 + CHOOSE j \in BreaksBefore(k) : \A i \in BreaksBefore(k) : i <= j
\* parseNote has built input, lines and columns and starts the main scan
\* (nothing changes them afterwards)
Indexed == blockStack /= <<>> /\ index = 0

\* C26: the position index has one entry for every character of the
\* normalized text and one more for the end of the input; CRLF, CR and LF
\* are one "\n" each and a tab is 4 spaces; the entry of offset k has the
\* line 1 + the number of line breaks before k and the column 1 + the
\* number of characters between the start of that line and k; the empty
\* text has the one entry (1, 1)
C26_PositionIndex ==
  Indexed =>
    /\ input = Folded(noteText)
    /\ Len(lines) = Len(input) + 1 /\ Len(columns) = Len(input) + 1
    /\ \A k \in 0..Len(input) :
         /\ At(lines, k) = 1 + Cardinality(BreaksBefore(k))
         /\ At(columns, k) = 1 + (k - LineStart(k))
    /\ noteText = <<>> => (lines = <<1>> /\ columns = <<1>>)

\* a text with a tab, a CRLF and a character after them has been indexed
C26_Witness ==
  /\ Indexed
  /\ \E i \in DOMAIN noteText : noteText[i] = "\t"
  /\ \E i \in 1..(Len(noteText) - 2) :
       noteText[i] = "\r" /\ noteText[i + 1] = "\n"
  /\ Len(input) = Len(noteText) + 2
  /\ At(lines, Len(input)) = 2 /\ At(columns, Len(input)) > 1

\* for every block and inline block below node, the text between its start
\* and end offsets begins with its marker and is what the node was
\* recognized from
RECURSIVE SlicesBack(_)
SlicesBack(node) ==
  \A k \in DOMAIN node.children :
    LET c == node.children[k]
    IN c.type \in {"block", "inline-block"} =>
         /\ CharAt(noteText, c.start) \in {"+", "@"}
         /\ Folded(Slice(noteText, c.start, c.end)) = Slice(input, c.start, c.end)
         /\ SlicesBack(c)

\* C27: the start and end offsets of every block and inline block are
\* offsets into the text parseNote was called on: the slice of that text
\* between them is the source of the construct, from its '+' or '@' on,
\* also when the text has tabs or CRLF line breaks
C27_OriginalOffsets ==
  ast /= NullNode => SlicesBack(ast)

\* one turn of the main scan moves the index forward: to the end of the
\* match, which lies after its start, or by one when nothing matched
ScanStep ==
  (Parsing /\ index < Len(input)) =>
    /\ index' > index
    /\ IF Len(log') > Len(log) /\ log'[Len(log')].match /= "null"
       THEN Top(blockStack').current = index'
       ELSE index' = index + 1

\* C28: on every turn of the main scan the index strictly increases, so no
\* position is visited twice and the scan never moves back; parseNote
\* comes to its end on every text
C28_ScanAdvances ==
  /\ [][ScanStep]_vars
  /\ <>(ast /= NullNode)

\* the scan went over a block, an inline block and a '}' and has ended
C28_Witness ==
  /\ ast /= NullNode /\ index >= Len(input)
  /\ \E k \in DOMAIN log : log[k].match = "block"
  /\ \E k \in DOMAIN log : log[k].match = "inline-block"
  /\ \E k \in DOMAIN log : log[k].match = "null"

\* the Show Preview calls that wait for noteProcessInit
InitTasks == SelectSeq(tasks, LAMBDA t : t.kind = "init")
\* a step in which a Show Preview call goes on after its await and, the
\* panel being there, starts the full render of handleDocChange
PreviewRenders == panel /\ Len(InitTasks') < Len(InitTasks)

\* C29: the full render that Show Preview starts begins in the cleaned-up
\* state: counter 0, the arrays and the line map with their sentinel entry
\* only, no queued edit
C29_PreviewFromClean ==
  [][PreviewRenders => CleanedNow]_vars

\* a node of the given type starts at index i of the input
RECURSIVE HasNode(_, _, _)
HasNode(node, i, type) ==
  \E k \in DOMAIN node.children :
    LET c == node.children[k]
    IN (c.start = i /\ c.type = type) \/ HasNode(c, i, type)

\* C30: at a '@' or a '+' the block-open parser is tried before the
\* inline-block parser and the first match wins: where parseBlockBegin
\* matches the node is a block, also when parseInlineBlock matches there
\* too, and an inline block comes only from a position where
\* parseBlockBegin fails
C30_BlockOpenFirst ==
  \A k \in DOMAIN log :
    /\ log[k].begin = "ok" => log[k].match = "block"
    /\ (log[k].begin /= "ok" /\ log[k].inline = "ok") => log[k].match = "inline-block"
    /\ (log[k].begin /= "ok" /\ log[k].inline /= "ok") => log[k].match = "null"
    /\ ast /= NullNode =>
         /\ log[k].begin = "ok" =>
              /\ HasNode(ast, log[k].index, "block")
              /\ ~HasNode(ast, log[k].index, "inline-block")
         /\ HasNode(ast, log[k].index, "inline-block") => log[k].begin /= "ok"

\* a text was parsed with a position where both parsers match and a
\* position where only the inline-block parser does
C30_Witness ==
  /\ ast /= NullNode
  /\ \E k \in DOMAIN log :
       log[k].begin = "ok" /\ log[k].inline = "ok" /\ HasNode(ast, log[k].index, "block")
  /\ \E k \in DOMAIN log :
       /\ log[k].begin /= "ok" /\ log[k].inline = "ok"
       /\ HasNode(ast, log[k].index, "inline-block")

\* C31: a block or an inline block is recognized only with a label of one
\* or more lower-case letters: at an '@' that is followed directly by a
\* space, a line break, a '{' or a style character nothing is recognized
C31_LabelNotEmpty ==
  \A k \in DOMAIN log :
    log[k].match /= "null" =>
      LET at == IF CharAt(input, log[k].index) = "+"
                THEN log[k].index + 1 ELSE log[k].index
      IN CharAt(input, at + 1) \in Letters

\* C32: the text between the constructs is handed to parseNativeMarkdown as
\* runs that partition it: the runs come in increasing order and do not
\* overlap, a run never starts after the scan index, a run is parsed with
\* four times the number of blocks open around it as trailSpaces, and when
\* parseNote has returned every character of the normalized text lies in
\* one run or in one construct (from the '@', '+' or '}' the run stops at
\* to where the next run starts) and in no second one
InRunCall(r, k) == runs[r].start <= k /\ k < runs[r].end
InConstruct(r, k) == r < Len(runs) /\ runs[r].end <= k /\ k < runs[r + 1].start
C32_RunsPartition ==
  /\ \A r \in DOMAIN runs :
       /\ runs[r].start <= runs[r].index
       /\ runs[r].trailSpaces = 4 * (runs[r].depth - 1)
       /\ r = 1 => runs[r].start = 0
       /\ r > 1 => /\ runs[r - 1].start < runs[r].start
                   /\ runs[r - 1].end < runs[r].start
                   /\ CharAt(input, runs[r - 1].end) \in {"@", "+", "}"}
  /\ ast /= NullNode =>
       \A k \in 0 .. Len(input) - 1 :
         Cardinality({r \in DOMAIN runs : InRunCall(r, k)})
           + Cardinality({r \in DOMAIN runs : InConstruct(r, k)}) = 1
\* a text with a run inside a block and a run behind the block has been
\* parsed
C32_Witness ==
  /\ ast /= NullNode
  /\ \E r, q \in DOMAIN runs :
       /\ r < q
       /\ runs[r].start < runs[r].end /\ runs[r].trailSpaces = 4
       /\ runs[q].start < runs[q].end /\ runs[q].trailSpaces = 0

\* C33: at every step of the main scan the block stack is one entry longer
\* than the indent level and the indent level is not negative; the lowest
\* entry is the root, which is never popped, and every entry above it is a
\* block
C33_StackDepth ==
  blockStack /= <<>> =>
    /\ Len(blockStack) = indentLevel + 1
    /\ indentLevel >= 0
    /\ blockStack[1].node.type = "root"
    /\ \A k \in 2 .. Len(blockStack) : blockStack[k].node.type = "block"
\* a block inside a block has been opened and closed again, and the scan
\* is back at the root
C33_Witness ==
  /\ Parsing /\ Len(blockStack) = 1 /\ indentLevel = 0
  /\ \E r \in DOMAIN runs : runs[r].depth = 3 /\ CharAt(input, runs[r].end) = "}"

\* C34: every position stored on the root, on a block or on an inline block
\* has an offset from 0 to the length of the normalized text, so that the
\* position index holds a line and a column for it; also for an inline block
\* or a closing brace on a last line that has no line break
InIndex(offset) ==
  /\ 0 <= offset /\ offset <= Len(input)
  /\ At(lines, offset) /= undefined /\ At(columns, offset) /= undefined
RECURSIVE PositionsDefined(_)
PositionsDefined(node) ==
  /\ node.type \in {"root", "block", "inline-block"} =>
       InIndex(node.start) /\ InIndex(node.end)
  /\ \A k \in DOMAIN node.children : PositionsDefined(node.children[k])
C34_OffsetsInIndex == ast /= NullNode => PositionsDefined(ast)

\* C35: a block-open, an inline block or a closing '}' is recognized only
\* as the first character of its line that is not a space: a marker with any
\* other character before it on its line is ordinary text, also in the
\* column the scan looks at
FirstOnLine(k) == \A j \in LineStart(k) .. (k - 1) : CharAt(input, j) = " "
C35_FirstOnLine ==
  /\ \A k \in DOMAIN log : log[k].match /= "null" => FirstOnLine(log[k].index)
  /\ \A r \in DOMAIN runs :
       (r < Len(runs) \/ ast = NullNode) /\ CharAt(input, runs[r].end) = "}"
         => FirstOnLine(runs[r].end)

\* C36: an export to HTML or to PDF while the preview is open leaves the
\* id counter, the parent, depth, start and end arrays and the line->id map
\* (its length too) as they were; the export is taken when the preview has
\* rendered the document and nothing is queued or waiting
C36_ExportKeepsTree ==
  [][Idle /\ (ExportHtml \/ ExportPdf)
       => UNCHANGED <<counter, map, mapFather, mapDepth, mapStartLine, mapEndLine>>]_vars

\* C37: every content change of a document-change event on the previewed
\* document is enqueued and processed: after the event each of its changes
\* is in the queue, or is the change of a call that is waiting, or the worker
\* has got to it or past it (it takes the messages in their order)
Accepted(startLine, endLine, textLines, seq) ==
  \/ \E k \in DOMAIN messageQueue :
       /\ messageQueue[k].startLine = startLine /\ messageQueue[k].endLine = endLine
       /\ messageQueue[k].textLines = textLines
  \/ \E i \in DOMAIN tasks :
       /\ tasks[i].kind = "text"
       /\ tasks[i].change.startLine = startLine /\ tasks[i].change.endLine = endLine
       /\ tasks[i].change.textLines = textLines
  \/ done.change.seq >= seq
C37_EveryChangeEnqueued ==
  [][\A lo, hi \in [startLine : 1..Len(doc), endLine : 1..Len(doc), text : SessionTexts] :
       \A contentChanges \in {<<lo, hi>>, <<hi, lo>>} :
         panel /\ DidChangeTextDocumentTwo(lo, hi, contentChanges)
           => \A k \in 1..2 :
                Accepted(contentChanges[k].startLine, contentChanges[k].endLine,
                         Len(contentChanges[k].text), nEdits + k)']_vars

\* C38: edits that are enqueued before the first of them is processed are
\* handled as if each had been processed to its end before the next one
\* occurred: each is re-parsed against the document as it was right after
\* that edit.  The tracked line count a call starts from is then the line
\* count before its edit, so the line count it reads from the document is
\* that count plus the edit's deltaLength, and the lines it asks the
\* document for are there
AsAfterEdit(t) ==
  t.kind = "text" /\ t.outcome \in {"partial", "threw"} =>
    /\ t.editorTotalLines = t.preTotalLines + t.deltaLength
    /\ t.outcome /= "threw"
C38_QueuedAsSequential ==
  /\ AsAfterEdit(done)
  /\ \A i \in DOMAIN tasks : AsAfterEdit(tasks[i])

\* C39: a reset while an edit is being handled does not let that edit into
\* the new session.  After cleanUp isProcessing is false while the call of
\* the edit still waits; the step in which that call goes on posts no
\* partialUpdateHtml and leaves the counter, the arrays, totalLines, mapLast
\* and mapNext as the reset and the renders started after it made them
StaleResume ==
  /\ ~isProcessing /\ Len(TextTasks) = 1
  /\ Len(SelectSeq(tasks', LAMBDA t : t.kind = "text")) = 0
C39_ResetNoLeak ==
  [][StaleResume =>
       /\ posted' = posted
       /\ UNCHANGED <<counter, map, mapFather, mapDepth, mapStartLine, mapEndLine,
                      totalLines, mapLast, mapNext>>]_vars

\* C40: when the handling of an edit throws, the worker catches the error,
\* clears isProcessing and goes on with the edits that are left in the
\* queue, in their order: isProcessing is set only while a call is waiting,
\* messages are in the queue only while the worker is at work, and the
\* messages left after an edit that threw are later ones
C40_ThrowCaught ==
  /\ isProcessing => TextTasks /= <<>>
  /\ messageQueue /= <<>> => isProcessing
  /\ done.outcome = "threw" =>
       /\ \A k \in DOMAIN messageQueue : messageQueue[k].seq > done.change.seq
       /\ \A i \in DOMAIN TextTasks : TextTasks[i].change.seq > done.change.seq
\* the handling of a queued edit threw and the worker is at the edit that
\* was behind it in the queue
C40_Witness ==
  /\ done.outcome = "threw" /\ isProcessing
  /\ \E i \in DOMAIN TextTasks :
       /\ TextTasks[i].outcome = "partial"
       /\ TextTasks[i].change.seq = done.change.seq + 1

====
